---- MODULE Spec2Model ----
(***************************************************************************)
(* Synchronisation engine of the AllThingsClean backends: the Shopify       *)
(* backend (server.js, services/shopifyWebhookHandler.js, models/*.js) and  *)
(* the Lightspeed backend (server.js, services/lightspeedWebhookHandler.js).*)
(* One behaviour is one server process; `backend` says which of the two     *)
(* server.js files it runs.                                                 *)
(*                                                                          *)
(* Each action is the code that runs between two suspension points (awaits  *)
(* on the store or on the platform) of one request handler.                 *)
(***************************************************************************)
EXTENDS Integers, Sequences, FiniteSets, TLC

VARIABLES
  backend,    \* "shopify" | "lightspeed": which server.js this process runs
  env,        \* process.env: SHOPIFY_WEBHOOK_SECRET, SHOPIFY_API_SECRET ("" = unset)
  now,        \* the clock read by new Date() / mongoose timestamps
  products,   \* Product collection, by external id
  customers,  \* Customer collection, by external id
  orders,     \* Order collection, by external id
  reqs,       \* webhook requests received so far, with the task each one started
  run,        \* the bulk-sync request in progress (POST .../sync/products)
  inv,        \* inventory route calls (PUT .../inventory, POST .../inventory/adjust)
  unhandled,  \* number of promise rejections no handler caught
  vcase,      \* inputs and result of a direct call of verifyWebhook
  client,     \* the LightspeedRSeriesService singleton and its request() call under way
  reg,        \* the webhook registration request (POST .../webhooks/register)
  tr,         \* a direct call of a translator: its name, argument and result
  deletedSince \* ids whose delete event was handled since the bulk sync got its list

vars == <<backend, env, now, products, customers, orders, reqs, run, inv, unhandled, vcase, client, reg, tr,
          deletedSince>>

(***************************************************************************)
(* Bounds                                                                   *)
(***************************************************************************)
MaxWebhooks == 2      \* webhook requests per behaviour
MaxClock    == 1      \* clock ticks per behaviour
MaxDeletes  == 1      \* deletions of one product per behaviour
MaxItems    == 3      \* length of the list the platform returns to a bulk sync
MaxInvCalls == 1      \* inventory route calls per behaviour
MaxLen      == 3      \* length of the bodies given to verifyWebhook directly
MaxDuring   == 1      \* webhook requests beside one bulk sync
MaxPerKind  == 2      \* length of each list the platform returns to the sync of all kinds
MaxCalls    == 2      \* calls of request() per behaviour

Ids == {1, 2}         \* external ids the platform uses

(***************************************************************************)
(* JavaScript values of the payload fields.  Money is kept in cents, so     *)
(* parseFloat("9.99") is the number 999.                                    *)
(***************************************************************************)
Undefined == [t |-> "undefined", n |-> 0, s |-> ""]
NaN       == [t |-> "NaN", n |-> 0, s |-> ""]
Num(n)    == [t |-> "number", n |-> n, s |-> ""]
Str(s)    == [t |-> "string", n |-> 0, s |-> s]

\* ToBoolean
Truthy(v) ==
  CASE v.t = "undefined" -> FALSE
    [] v.t = "NaN"       -> FALSE
    [] v.t = "number"    -> v.n # 0
    [] v.t = "string"    -> v.s # ""

\* a || b
Or(a, b) == IF Truthy(a) THEN a ELSE b

\* the numeric strings the payloads carry, and what parseFloat reads in them
StringToNumber(s) ==
  CASE s = "9.99"  -> Num(999)
    [] s = "12.50" -> Num(1250)
    [] s = "5"     -> Num(5)
    [] s = "0"     -> Num(0)
    [] OTHER       -> NaN

\* parseFloat(v): parses the string form of v
parseFloat(v) ==
  CASE v.t = "number" -> v
    [] v.t = "string" -> StringToNumber(v.s)
    [] OTHER          -> NaN

\* parseInt(v): the strings of the model hold no fraction
parseInt(v) == parseFloat(v)

\* v > 0
Gt0(v) ==
  CASE v.t = "number" -> v.n > 0
    [] v.t = "string" -> (IF v.s = "" THEN FALSE ELSE
                            LET x == StringToNumber(v.s) IN x.t = "number" /\ x.n > 0)
    [] OTHER          -> FALSE

(***************************************************************************)
(* Payloads of the external platforms                                       *)
(***************************************************************************)
IdVals   == {Num(i) : i \in Ids} \cup {Undefined}
Titles   == {"Mop"}
PriceVals == {Str("9.99"), Str("abc"), Undefined}
QtyVals   == {Undefined, Num(0), Num(5), Num(-1)}
ShopifyVariants == [price : PriceVals, inventory_quantity : QtyVals]
VariantLists == {<<>>} \cup {<<v>> : v \in ShopifyVariants}

\* Shopify product: { id, title, variants: [{ price, inventory_quantity }] }
ShopifyProducts == [id : IdVals, title : Titles, variants : VariantLists]

Emails == {"a@x.com", "b@x.com"}
\* Shopify customer: { id, email }
ShopifyCustomers == [id : IdVals, email : Emails]

CancelTimes == {7}
\* Shopify order: { id, total_price, financial_status, cancelled_at, cancel_reason }
ShopifyOrders == [id : IdVals, total_price : {Str("9.99"), Undefined},
                  financial_status : {"paid"}, cancelled_at : CancelTimes,
                  cancel_reason : {"customer"}]

\* Lightspeed Item: { itemID, description, Prices.ItemPrice[0].amount, ItemShops.ItemShop[0].qoh }
LightspeedItems == [itemID : Ids, description : Titles, amount : PriceVals, qoh : {Str("5"), Str("0"), Undefined}]
\* Lightspeed Customer: { customerID, Contact.Emails.ContactEmail.address }
LightspeedCustomers == [customerID : Ids, address : Emails]
\* Lightspeed Sale: { saleID, calcTotal, completed }
LightspeedSales == [saleID : Ids, calcTotal : {Str("9.99"), Undefined}, completed : {"true", "false"}]

(***************************************************************************)
(* Entity translators                                                       *)
(***************************************************************************)
EmptyVariant == [price |-> Undefined, inventory_quantity |-> Undefined]

ThrownProduct == [threw |-> TRUE, id |-> 0, name |-> "", price |-> NaN, inStock |-> FALSE,
                  stockQuantity |-> Undefined, variants |-> <<>>]

\* ShopifyWebhookHandler.convertShopifyProduct; product.id.toString() throws
\* a TypeError when the payload has no id
convertShopifyProduct(product) ==
  LET mainVariant == IF Len(product.variants) > 0 THEN product.variants[1] ELSE EmptyVariant
  IN IF product.id.t = "undefined" THEN ThrownProduct
     ELSE [threw         |-> FALSE,
           id            |-> product.id.n,
           name          |-> product.title,
           price         |-> parseFloat(Or(mainVariant.price, Num(0))),
           inStock       |-> Gt0(mainVariant.inventory_quantity),
           stockQuantity |-> Or(mainVariant.inventory_quantity, Num(0)),
           variants      |-> [i \in 1..Len(product.variants) |->
                                [price |-> parseFloat(product.variants[i].price),
                                 inventoryQuantity |-> product.variants[i].inventory_quantity]]]

\* WebhookHandler.convertItemToProduct
convertItemToProduct(item) ==
  [threw         |-> FALSE,
   id            |-> item.itemID,
   name          |-> item.description,
   price         |-> parseFloat(Or(item.amount, Num(0))),
   inStock       |-> Gt0(parseInt(Or(item.qoh, Num(0)))),
   stockQuantity |-> parseInt(Or(item.qoh, Num(0))),
   variants      |-> <<>>]

ThrownCustomer == [threw |-> TRUE, id |-> 0, email |-> ""]

\* ShopifyWebhookHandler.convertShopifyCustomer
convertShopifyCustomer(customer) ==
  IF customer.id.t = "undefined" THEN ThrownCustomer
  ELSE [threw |-> FALSE, id |-> customer.id.n, email |-> customer.email]

\* WebhookHandler.convertCustomer
convertCustomer(customer) ==
  [threw |-> FALSE, id |-> customer.customerID, email |-> customer.address]

ThrownOrder == [threw |-> TRUE, id |-> 0, total |-> NaN, status |-> "", lastUpdated |-> 0]

\* ShopifyWebhookHandler.convertShopifyOrder; lastUpdated is new Date()
convertShopifyOrder(order, t) ==
  IF order.id.t = "undefined" THEN ThrownOrder
  ELSE [threw       |-> FALSE,
        id          |-> order.id.n,
        total       |-> parseFloat(Or(order.total_price, Num(0))),
        status      |-> order.financial_status,
        lastUpdated |-> t]

\* WebhookHandler.convertSale; the sale's timeStamp is taken as absent, so
\* lastUpdated is new Date()
convertSale(sale, t) ==
  [threw       |-> FALSE,
   id          |-> sale.saleID,
   total       |-> parseFloat(Or(sale.calcTotal, Num(0))),
   status      |-> IF sale.completed = "true" THEN "completed" ELSE "open",
   lastUpdated |-> t]

(***************************************************************************)
(* Upsert store: the mongoose models Product, Customer and Order.  A        *)
(* collection maps an external id to its document; gen counts the documents *)
(* ever inserted under that id (it stands for the _id of the document).     *)
(***************************************************************************)
AbsentProduct(g) == [present |-> FALSE, gen |-> g, name |-> "", price |-> 0, inStock |-> FALSE,
                     stockQuantity |-> 0, updatedAt |-> 0]
AbsentCustomer(g) == [present |-> FALSE, gen |-> g, email |-> "", updatedAt |-> 0]
AbsentOrder(g) == [present |-> FALSE, gen |-> g, total |-> 0, status |-> "", cancelledAt |-> 0,
                   cancelReason |-> "", lastUpdated |-> 0, updatedAt |-> 0]

\* mongoose casts every value of an update to the type of its schema path;
\* the cast of NaN to Number fails with a CastError
CastsToNumber(v) ==
  CASE v.t = "number" -> TRUE
    [] v.t = "string" -> v.s = "" \/ StringToNumber(v.s).t = "number"
    [] v.t = "NaN"    -> FALSE
    [] OTHER          -> TRUE

CastNumber(v) ==
  CASE v.t = "number" -> v.n
    [] v.t = "string" -> (IF v.s = "" THEN 0 ELSE StringToNumber(v.s).n)
    [] OTHER          -> 0

ProductCastOk(data) ==
  /\ CastsToNumber(data.price)
  /\ CastsToNumber(data.stockQuantity)
  /\ \A i \in 1..Len(data.variants) : /\ CastsToNumber(data.variants[i].price)
                                      /\ CastsToNumber(data.variants[i].inventoryQuantity)

\* the update document mongoose sends for a translated product
ProductCast(data) ==
  [threw |-> FALSE, id |-> data.id, name |-> data.name, price |-> CastNumber(data.price),
   inStock |-> data.inStock, stockQuantity |-> CastNumber(data.stockQuantity)]

\* an upsert that adds the quantity of the update to the stored one
ProductWrite_Accumulate(coll, id, doc, t) ==
  [coll EXCEPT ![id] =
     [present       |-> TRUE,
      gen           |-> IF @.present THEN @.gen ELSE @.gen + 1,
      name          |-> doc.name,
      price         |-> doc.price,
      inStock       |-> doc.inStock,
      stockQuantity |-> @.stockQuantity + doc.stockQuantity,
      updatedAt     |-> t]]
\* the server side of Product.findOneAndUpdate({ <external id>: id }, doc,
\* { upsert: true, new: true }): a $set of the fields of doc; schema option
\* timestamps: true stamps updatedAt with the time t the call was issued
ProductWrite(coll, id, doc, t) ==
  [coll EXCEPT ![id] =
     [present       |-> TRUE,
      gen           |-> IF @.present THEN @.gen ELSE @.gen + 1,
      name          |-> doc.name,
      price         |-> doc.price,
      inStock       |-> doc.inStock,
      stockQuantity |-> doc.stockQuantity,
      updatedAt     |-> t]]

\* Product.findOneAndUpdate as one call: cast, then write
ProductFindOneAndUpdate(coll, id, data, t) ==
  IF ~ProductCastOk(data)
  THEN [err |-> TRUE, coll |-> coll]
  ELSE [err |-> FALSE, coll |-> ProductWrite(coll, id, ProductCast(data), t)]

\* Customer.findOneAndUpdate(...): email carries a unique index, so the write
\* fails with a duplicate key error when another document holds the email
\* String.prototype.toLowerCase on the addresses of the model
toLowerCase(str) ==
  CASE str = "A@X.com" -> "a@x.com"
    [] OTHER -> str

\* a collection without the unique index on email
CustomerFindOneAndUpdate_NoIndex(coll, id, data, t) ==
  [err |-> FALSE,
   coll |-> [coll EXCEPT ![id] =
               [present   |-> TRUE,
                gen       |-> IF @.present THEN @.gen ELSE @.gen + 1,
                email     |-> toLowerCase(data.email),
                updatedAt |-> t]]]
CustomerFindOneAndUpdate(coll, id, data, t) ==
  LET email == toLowerCase(data.email)
  IN IF \E o \in Ids : o # id /\ coll[o].present /\ coll[o].email = email
     THEN [err |-> TRUE, coll |-> coll]
     ELSE [err |-> FALSE,
           coll |-> [coll EXCEPT ![id] =
                       [present   |-> TRUE,
                        gen       |-> IF @.present THEN @.gen ELSE @.gen + 1,
                        email     |-> email,
                        updatedAt |-> t]]]

\* Order.findOneAndUpdate(..., { upsert: true, new: true }): the update is a
\* $set of the fields of data, so cancelledAt keeps its value
OrderCastOk(data) == CastsToNumber(data.total)
OrderCast(data) == [data EXCEPT !.total = CastNumber(data.total)]
OrderWrite(coll, id, doc, t) ==
  [coll EXCEPT ![id] =
     [present     |-> TRUE,
      gen         |-> IF @.present THEN @.gen ELSE @.gen + 1,
      total       |-> doc.total,
      status      |-> doc.status,
      cancelledAt |-> IF @.present THEN @.cancelledAt ELSE 0,
      cancelReason |-> IF @.present THEN @.cancelReason ELSE "",
      lastUpdated |-> doc.lastUpdated,
      updatedAt   |-> t]]

\* a delete that leaves the document in place
ProductFindOneAndDelete_Keep(coll, id) == coll
\* Model.findOneAndDelete({ <external id>: id })
ProductFindOneAndDelete(coll, id)  == [coll EXCEPT ![id] = AbsentProduct(@.gen)]
\* a delete whose filter matches every document
CustomerFindOneAndDelete_All(coll, id) == [i \in Ids |-> AbsentCustomer(coll[i].gen)]
CustomerFindOneAndDelete(coll, id) == [coll EXCEPT ![id] = AbsentCustomer(@.gen)]
OrderFindOneAndDelete(coll, id)    == [coll EXCEPT ![id] = AbsentOrder(@.gen)]

\* a cancellation that upserts: it inserts a record when the id has none
OrderMarkCancelled_Upsert(coll, id, cancelledAt, t) ==
  [coll EXCEPT ![id] = [(IF @.present THEN @ ELSE [@ EXCEPT !.present = TRUE, !.gen = @ + 1])
                          EXCEPT !.status = "cancelled", !.cancelledAt = cancelledAt,
                                 !.lastUpdated = t, !.updatedAt = t]]
\* ShopifyWebhookHandler.handleOrderCancelled: findOneAndUpdate without upsert
OrderMarkCancelled(coll, id, cancelledAt, t) ==
  IF coll[id].present
  THEN [coll EXCEPT ![id] = [@ EXCEPT !.status = "cancelled", !.cancelledAt = cancelledAt,
                                      !.lastUpdated = t, !.updatedAt = t]]
  ELSE coll

(***************************************************************************)
(* Signature verifier                                                       *)
(***************************************************************************)
\* crypto.createHmac('sha256', secret).update(body,'utf8').digest('base64'):
\* a keyed hash, taken as collision free
Hmac(secret, body) == [key |-> secret, msg |-> body]

\* process.env.SHOPIFY_WEBHOOK_SECRET || process.env.SHOPIFY_API_SECRET
WebhookSecret(e) ==
  IF e.SHOPIFY_WEBHOOK_SECRET # "" THEN e.SHOPIFY_WEBHOOK_SECRET ELSE e.SHOPIFY_API_SECRET

\* a verifier that takes a signature made with either secret
verifyWebhookIn_EitherSecret(e, body, hmacHeader) ==
  IF WebhookSecret(e) = ""
  THEN [threw |-> TRUE, valid |-> FALSE]
  ELSE [threw |-> FALSE,
        valid |-> \E k \in {e.SHOPIFY_WEBHOOK_SECRET, e.SHOPIFY_API_SECRET} \ {""} :
                    {Hmac(k, body)} = hmacHeader]
\* The header is a set: {} when the request carries no signature header.
\* createHmac throws when no secret is configured.
verifyWebhookIn(e, body, hmacHeader) ==
  IF WebhookSecret(e) = ""
  THEN [threw |-> TRUE, valid |-> FALSE]
  ELSE [threw |-> FALSE, valid |-> ({Hmac(WebhookSecret(e), body)} = hmacHeader)]

\* a verifier that only checks that the header was made with the secret
verifyWebhook_KeyOnly(body, hmacHeader) ==
  [threw |-> FALSE, valid |-> \E h \in hmacHeader : h.key = WebhookSecret(env)]
verifyWebhook(body, hmacHeader) == verifyWebhookIn(env, body, hmacHeader)

(***************************************************************************)
(* Request bodies.  A text is the JSON text of an object payload, the JSON  *)
(* text of an array holding that JSON text as its one string element, the   *)
(* text "[object Object]", or a text that is not JSON.                      *)
(***************************************************************************)
NoPayload == [id |-> Undefined]
JsonText(p)      == [k |-> "json", p |-> p]
WrappedText(p)   == [k |-> "wrapped", p |-> p]
JunkText         == [k |-> "junk", p |-> NoPayload]
ObjectObjectText == [k |-> "[object Object]", p |-> NoPayload]

ObjectValue(p)    == [k |-> "object", p |-> p]
ArrayOfString(tx) == [k |-> "array", p |-> tx]
BufferValue(tx)   == [k |-> "buffer", p |-> tx]

\* JSON.parse(text)
JSONparse(tx) ==
  CASE tx.k = "json"    -> [ok |-> TRUE, value |-> ObjectValue(tx.p)]
    [] tx.k = "wrapped" -> [ok |-> TRUE, value |-> ArrayOfString(JsonText(tx.p))]
    [] OTHER            -> [ok |-> FALSE, value |-> ObjectValue(NoPayload)]

\* value.toString('utf8'): Object.prototype.toString, Array.prototype.toString
\* (the elements joined) or Buffer.prototype.toString
toString(value) ==
  CASE value.k = "object" -> ObjectObjectText
    [] value.k = "array"  -> value.p
    [] value.k = "buffer" -> value.p

\* the members of a parsed body the handlers read
DataOf(value) == IF value.k = "object" THEN value.p ELSE NoPayload

ContentTypes == {"application/json", "text/plain"}

\* app.use(express.json()): parses every application/json body (strict mode:
\* objects and arrays), marks the request as parsed, fails on a body that is
\* not JSON; any other request gets the body {}
expressJson(ctype, rawText) ==
  IF ctype # "application/json"
  THEN [err |-> FALSE, parsed |-> FALSE, body |-> ObjectValue(NoPayload)]
  ELSE IF JSONparse(rawText).ok
       THEN [err |-> FALSE, parsed |-> TRUE, body |-> JSONparse(rawText).value]
       ELSE [err |-> TRUE, parsed |-> FALSE, body |-> ObjectValue(NoPayload)]

\* express.raw({ type: 'application/json' }) on the route: skips a request
\* that an earlier body parser has parsed
expressRaw(ctype, rawText, req) ==
  IF req.parsed \/ ctype # "application/json"
  THEN req
  ELSE [err |-> FALSE, parsed |-> TRUE, body |-> BufferValue(rawText)]

(***************************************************************************)
(* Event mode: dispatch of a webhook event                                  *)
(***************************************************************************)
ShopifyUpsertTopics == {"products/create", "products/update", "customers/create",
                        "customers/update", "orders/create", "orders/updated"}
ShopifyDeleteTopics == {"products/delete", "customers/delete"}
ShopifyTopics == ShopifyUpsertTopics \cup ShopifyDeleteTopics \cup {"orders/cancelled"}
\* topics the switch of handleWebhook has no case for
ShopifyOtherTopics == {"orders/delete", "shop/update"}

LightspeedUpsertTopics == {"item.create", "item.update", "customer.create", "customer.update",
                           "sale.create", "sale.update"}
LightspeedDeleteTopics == {"item.delete", "customer.delete", "sale.delete"}
LightspeedTopics == LightspeedUpsertTopics \cup LightspeedDeleteTopics
LightspeedOtherTopics == {"shop.update"}

KindOf(topic) ==
  CASE topic \in {"products/create", "products/update", "products/delete",
                  "item.create", "item.update", "item.delete"} -> "product"
    [] topic \in {"customers/create", "customers/update", "customers/delete",
                  "customer.create", "customer.update", "customer.delete"} -> "customer"
    [] OTHER -> "order"

NoRec   == [threw |-> FALSE, id |-> 0]
NoOp    == [type |-> "none", kind |-> "", id |-> 0, rec |-> NoRec, at |-> 0]
ThrowOp == [type |-> "throw", kind |-> "", id |-> 0, rec |-> NoRec, at |-> 0]
\* a translation that throws and an update that mongoose cannot cast both
\* reject the handler before any call reaches the store
UpsertOp(kind, rec, t) ==
  CASE rec.threw -> ThrowOp
    [] kind = "product" ->
         IF ProductCastOk(rec)
         THEN [type |-> "upsert", kind |-> kind, id |-> rec.id, rec |-> ProductCast(rec), at |-> t]
         ELSE ThrowOp
    [] kind = "order" ->
         IF OrderCastOk(rec)
         THEN [type |-> "upsert", kind |-> kind, id |-> rec.id, rec |-> OrderCast(rec), at |-> t]
         ELSE ThrowOp
    [] OTHER -> [type |-> "upsert", kind |-> kind, id |-> rec.id, rec |-> rec, at |-> t]
\* data.id.toString() throws when the payload has no id
DeleteOp(kind, idVal) ==
  IF idVal.t = "undefined" THEN ThrowOp
  ELSE [type |-> "delete", kind |-> kind, id |-> idVal.n, rec |-> NoRec, at |-> 0]

\* ShopifyWebhookHandler.handleWebhook up to its first await: the switch on
\* the topic, the translation, and the store call it issues at time t
ShopifyDispatch(topic, data, t) ==
  CASE topic \in {"products/create", "products/update"} ->
         UpsertOp("product", convertShopifyProduct(data), t)
    [] topic = "products/delete" -> DeleteOp("product", data.id)
    [] topic \in {"customers/create", "customers/update"} ->
         UpsertOp("customer", convertShopifyCustomer(data), t)
    [] topic = "customers/delete" -> DeleteOp("customer", data.id)
    [] topic \in {"orders/create", "orders/updated"} ->
         UpsertOp("order", convertShopifyOrder(data, t), t)
    [] topic = "orders/cancelled" ->
         IF data.id.t = "undefined" THEN ThrowOp
         ELSE [type |-> "cancel", kind |-> "order", id |-> data.id.n,
               rec |-> [threw |-> FALSE, id |-> data.id.n, cancelledAt |-> data.cancelled_at],
               at |-> t]
    [] OTHER -> NoOp

\* a handleWebhook whose default case throws
LightspeedDispatch_DefaultThrows(topic, hasData, id) ==
  CASE topic \notin LightspeedTopics -> ThrowOp
    [] ~hasData -> ThrowOp
    [] topic \in LightspeedUpsertTopics ->
         [type |-> "refetch", kind |-> KindOf(topic), id |-> id, rec |-> NoRec, at |-> 0]
    [] OTHER ->
         [type |-> "delete", kind |-> KindOf(topic), id |-> id, rec |-> NoRec, at |-> 0]
\* WebhookHandler.handleWebhook up to its first await: create/update topics
\* refetch the entity by id from the platform, delete topics go to the store;
\* data.itemID throws when the event carries no data
LightspeedDispatch(topic, hasData, id) ==
  CASE topic \notin LightspeedTopics -> NoOp
    [] ~hasData -> ThrowOp
    [] topic \in LightspeedUpsertTopics ->
         [type |-> "refetch", kind |-> KindOf(topic), id |-> id, rec |-> NoRec, at |-> 0]
    [] OTHER ->
         [type |-> "delete", kind |-> KindOf(topic), id |-> id, rec |-> NoRec, at |-> 0]

\* the shapes the platform sends with a topic
ShopifyPayloads(topic) ==
  CASE topic \in {"products/create", "products/update", "products/delete"} -> ShopifyProducts
    [] topic \in {"customers/create", "customers/update", "customers/delete"} -> ShopifyCustomers
    [] topic \in {"orders/create", "orders/updated", "orders/cancelled", "orders/delete"} -> ShopifyOrders
    [] OTHER -> {NoPayload}

\* what the platform answers to getItemById / getCustomerById / getSaleById
LightspeedEntities(kind, id) ==
  CASE kind = "product"  -> {x \in LightspeedItems : x.itemID = id}
    [] kind = "customer" -> {x \in LightspeedCustomers : x.customerID = id}
    [] OTHER             -> {x \in LightspeedSales : x.saleID = id}

\* convertItemToProduct / convertCustomer / convertSale
LightspeedConvert(kind, entity, t) ==
  CASE kind = "product"  -> convertItemToProduct(entity)
    [] kind = "customer" -> convertCustomer(entity)
    [] OTHER             -> convertSale(entity, t)

\* the store call of an issued operation
ApplyOp(op, P, C, O) ==
  CASE op.type = "upsert" /\ op.kind = "product" ->
         [err |-> FALSE, products |-> ProductWrite(P, op.id, op.rec, op.at),
          customers |-> C, orders |-> O]
    [] op.type = "upsert" /\ op.kind = "customer" ->
         LET r == CustomerFindOneAndUpdate(C, op.id, op.rec, op.at)
         IN [err |-> r.err, products |-> P, customers |-> r.coll, orders |-> O]
    [] op.type = "upsert" /\ op.kind = "order" ->
         [err |-> FALSE, products |-> P, customers |-> C,
          orders |-> OrderWrite(O, op.id, op.rec, op.at)]
    [] op.type = "delete" /\ op.kind = "product" ->
         [err |-> FALSE, products |-> ProductFindOneAndDelete(P, op.id), customers |-> C, orders |-> O]
    [] op.type = "delete" /\ op.kind = "customer" ->
         [err |-> FALSE, products |-> P, customers |-> CustomerFindOneAndDelete(C, op.id), orders |-> O]
    [] op.type = "delete" /\ op.kind = "order" ->
         [err |-> FALSE, products |-> P, customers |-> C, orders |-> OrderFindOneAndDelete(O, op.id)]
    [] op.type = "cancel" ->
         [err |-> FALSE, products |-> P, customers |-> C,
          orders |-> OrderMarkCancelled(O, op.id, op.rec.cancelledAt, op.at)]
    [] OTHER -> [err |-> FALSE, products |-> P, customers |-> C, orders |-> O]

(***************************************************************************)
(* Webhook ingestion endpoints                                              *)
(***************************************************************************)
\* POST /api/shopify/webhook up to the hand-off: the body parsers, the
\* verifier, JSON.parse.  The global error handler and the catch of the
\* route both answer 500.
ShopifyWebhookRoute(ctype, rawText, hmacHeader) ==
  LET parsed  == expressJson(ctype, rawText)
      req     == expressRaw(ctype, rawText, parsed)
      rawBody == toString(req.body)
      isValid == verifyWebhook(rawBody, hmacHeader)
      data    == JSONparse(rawBody)
      reply(st, ver, called) == [status |-> st, verified |-> ver, invoked |-> called,
                                 data |-> IF called THEN data.value ELSE ObjectValue(NoPayload)]
  IN CASE parsed.err     -> reply(500, FALSE, FALSE)
       [] isValid.threw  -> reply(500, FALSE, FALSE)
       [] ~isValid.valid -> reply(401, FALSE, FALSE)
       [] ~data.ok       -> reply(500, TRUE, FALSE)
       [] OTHER          -> reply(200, TRUE, TRUE)

\* POST /api/lightspeed/webhook up to the hand-off: express.json() leaves an
\* object in req.body whatever was sent, and the route calls no verifier
LightspeedWebhookRoute == [status |-> 200, verified |-> FALSE, invoked |-> TRUE]

\* handleWebhook without its try/catch: the error rejects the promise
handleWebhookSettle_Rethrow(failed) == IF failed THEN "rejected" ELSE "ok"
\* the try/catch of handleWebhook: { success: true } or { success: false, error }
handleWebhookSettle(failed) == IF failed THEN "fail" ELSE "ok"

\* handleWebhook(...).catch(err => console.error(...)) in both routes: a
\* rejection of handleWebhook is handled there, any other outcome needs no handler
RouteCatch(settle) == 0

\* what the topic of an event asks for, by its name
EventClass(topic) ==
  CASE topic \in ShopifyUpsertTopics \cup LightspeedUpsertTopics -> "upsert"
    [] topic \in ShopifyDeleteTopics \cup LightspeedDeleteTopics \cup {"orders/delete"} -> "delete"
    [] topic = "orders/cancelled" -> "cancel"
    [] OTHER -> "other"

Recognized(topic) == topic \in ShopifyTopics \cup LightspeedTopics

\* the request as the server keeps it after the synchronous part of the route
Task(out, authentic, topic, op) ==
  [status     |-> out.status,
   replies    |-> 1,
   authentic  |-> authentic,
   verified   |-> out.verified,
   invoked    |-> out.invoked,
   recognized |-> out.invoked /\ Recognized(topic),
   class      |-> IF out.invoked THEN EventClass(topic) ELSE "other",
   kind       |-> IF out.invoked THEN KindOf(topic) ELSE "",
   pc         |-> IF ~out.invoked \/ op.type \in {"none", "throw"} THEN "done"
                  ELSE IF op.type = "refetch" THEN "refetch" ELSE "store",
   settle     |-> IF ~out.invoked THEN "none"
                  ELSE IF op.type = "none" THEN handleWebhookSettle(FALSE)
                  ELSE IF op.type = "throw" THEN handleWebhookSettle(TRUE)
                  ELSE "pending",
   op         |-> IF out.invoked /\ op.type \notin {"none", "throw"} THEN op ELSE NoOp,
   wrote      |-> FALSE,
   calls      |-> 0]

Keys == {"whsec", "apisec"}

\* the header equals the base64 HMAC-SHA256 of the raw body under the configured secret
Authentic(rawText, hmacHeader) ==
  WebhookSecret(env) # "" /\ hmacHeader = {Hmac(WebhookSecret(env), rawText)}

\* The route reads neither the topic nor the members of the body before it
\* hands the event off, so one topic and payload stand for all in the
\* requests it turns away.
Encodings == {"json", "wrapped", "junk"}
TextOf(enc, p) == IF enc = "junk" THEN JunkText ELSE [k |-> enc, p |-> p]
ProbeTopic == "shop/update"
HeaderKinds == {"none"} \cup (Keys \X {"raw", "[object Object]", "inner"})
HeaderOf(hk, rawText) ==
  IF hk = "none" THEN {}
  ELSE {Hmac(hk[1], CASE hk[2] = "raw" -> rawText
                      [] hk[2] = "inner" /\ rawText.k = "wrapped" -> JsonText(rawText.p)
                      [] OTHER -> ObjectObjectText)}
HandsOff(ctype, enc, hk) ==
  ShopifyWebhookRoute(ctype, TextOf(enc, NoPayload), HeaderOf(hk, TextOf(enc, NoPayload))).invoked

ShopifyWebhook ==
  /\ backend = "shopify"
  /\ Len(reqs) < MaxWebhooks
  /\ \E ctype \in ContentTypes, enc \in Encodings, hk \in HeaderKinds :
       \E topic \in (IF HandsOff(ctype, enc, hk) THEN ShopifyTopics \cup ShopifyOtherTopics
                     ELSE {ProbeTopic}) :
         \E p \in ShopifyPayloads(topic) :
           LET rawText    == TextOf(enc, p)
               hmacHeader == HeaderOf(hk, rawText)
               out == ShopifyWebhookRoute(ctype, rawText, hmacHeader)
               op  == IF out.invoked THEN ShopifyDispatch(topic, DataOf(out.data), now) ELSE NoOp
               task == Task(out, Authentic(rawText, hmacHeader), topic, op)
           IN /\ reqs' = Append(reqs, task)
              /\ unhandled' = unhandled + RouteCatch(task.settle)
  /\ UNCHANGED <<backend, env, now, products, customers, orders, run, inv, vcase, client, reg, tr, deletedSince>>

LightspeedWebhook ==
  /\ backend = "lightspeed"
  /\ Len(reqs) < MaxWebhooks
  /\ \E topic \in LightspeedTopics \cup LightspeedOtherTopics, hasData \in BOOLEAN, id \in Ids :
       LET task == Task(LightspeedWebhookRoute, FALSE, topic,
                        LightspeedDispatch(topic, hasData, id))
       IN /\ reqs' = Append(reqs, task)
          /\ unhandled' = unhandled + RouteCatch(task.settle)
  /\ UNCHANGED <<backend, env, now, products, customers, orders, run, inv, vcase, client, reg, tr, deletedSince>>

Finish(task, failed, wrote) ==
  [task EXCEPT !.pc = "done", !.settle = handleWebhookSettle(failed), !.op = NoOp, !.wrote = wrote]

\* handleItemUpdate / handleCustomerUpdate / handleSaleUpdate after the
\* platform answered the refetch: translate and issue the upsert
RefetchOk(i) ==
  /\ reqs[i].pc = "refetch"
  /\ \E e \in LightspeedEntities(reqs[i].op.kind, reqs[i].op.id) :
       LET op == UpsertOp(reqs[i].op.kind, LightspeedConvert(reqs[i].op.kind, e, now), now)
       IN reqs' = [reqs EXCEPT ![i] = [@ EXCEPT !.pc = "store", !.op = op, !.calls = @ + 1]]
  /\ UNCHANGED <<backend, env, now, products, customers, orders, run, inv, unhandled, vcase, client, reg, tr, deletedSince>>

\* a handler that asks the platform again when the refetch failed
RefetchFail_Retry(i) ==
  /\ reqs[i].pc = "refetch"
  /\ reqs[i].calls < 2
  /\ reqs' = [reqs EXCEPT ![i] = [@ EXCEPT !.calls = @ + 1]]
  /\ unhandled' = unhandled
  /\ UNCHANGED <<backend, env, now, products, customers, orders, run, inv, vcase, client, reg, tr, deletedSince>>
\* the refetch failed: the error reaches the catch of handleWebhook
RefetchFail(i) ==
  /\ reqs[i].pc = "refetch"
  /\ reqs' = [reqs EXCEPT ![i] = [Finish(@, TRUE, FALSE) EXCEPT !.calls = @ + 1]]
  /\ unhandled' = unhandled + RouteCatch(reqs'[i].settle)
  /\ UNCHANGED <<backend, env, now, products, customers, orders, run, inv, vcase, client, reg, tr, deletedSince>>

\* the store answered the call the handler awaits
StoreOk(i) ==
  /\ reqs[i].pc = "store"
  /\ LET r == ApplyOp(reqs[i].op, products, customers, orders)
     IN /\ products' = r.products
        /\ customers' = r.customers
        /\ orders' = r.orders
        /\ reqs' = [reqs EXCEPT ![i] = Finish(@, r.err, ~r.err)]
  /\ unhandled' = unhandled + RouteCatch(reqs'[i].settle)
  /\ UNCHANGED <<backend, env, now, run, inv, vcase, client, reg, tr, deletedSince>>

\* the store was unavailable for the call
StoreFail(i) ==
  /\ reqs[i].pc = "store"
  /\ reqs' = [reqs EXCEPT ![i] = Finish(@, TRUE, FALSE)]
  /\ unhandled' = unhandled + RouteCatch(reqs'[i].settle)
  /\ UNCHANGED <<backend, env, now, products, customers, orders, run, inv, vcase, client, reg, tr, deletedSince>>

Tick ==
  /\ now < MaxClock
  /\ now' = now + 1
  /\ UNCHANGED <<backend, env, products, customers, orders, reqs, run, inv, unhandled, vcase, client, reg, tr, deletedSince>>

(***************************************************************************)
(* Bulk mode: POST /api/shopify/sync/products and                           *)
(* POST /api/lightspeed/sync/products.  The platform's answer is a list of  *)
(* run.n items; the model reads each item when the loop reaches it.         *)
(***************************************************************************)
NoItem == [id |-> Undefined, title |-> "", variants |-> <<>>]
IdleRun == [pc |-> "idle", n |-> 0, k |-> 0, synced |-> 0, errors |-> 0, fails |-> 0,
            item |-> NoItem, id |-> 0, lastOk |-> FALSE, repeat |-> FALSE,
            status |-> 0, total |-> 0, stage |-> 0, results |-> <<>>,
            list |-> <<>>, started |-> 0, inflight |-> {}, order |-> <<>>]

\* a handleProductUpdate that reconciles: it keeps only the record it wrote
handleProductUpdate_Reconcile(coll, shopifyProduct, t, storeUp) ==
  LET productData == convertShopifyProduct(shopifyProduct)
  IN IF productData.threw \/ ~storeUp
     THEN [err |-> TRUE, coll |-> coll, id |-> 0]
     ELSE LET r == ProductFindOneAndUpdate(coll, productData.id, productData, t)
          IN [err |-> r.err,
              coll |-> [i \in Ids |-> IF i = productData.id THEN r.coll[i]
                                       ELSE AbsentProduct(r.coll[i].gen)],
              id |-> productData.id]
\* ShopifyWebhookHandler.handleProductUpdate called at time t: translate,
\* then one findOneAndUpdate; any error is rethrown to the caller
handleProductUpdate(coll, shopifyProduct, t, storeUp) ==
  LET productData == convertShopifyProduct(shopifyProduct)
  IN IF productData.threw \/ ~storeUp
     THEN [err |-> TRUE, coll |-> coll, id |-> 0]
     ELSE LET r == ProductFindOneAndUpdate(coll, productData.id, productData, t)
          IN [err |-> r.err, coll |-> r.coll, id |-> productData.id]

\* WebhookHandler.handleItemUpdate(itemID) called at time t: getItemById,
\* translate, then one findOneAndUpdate; nothing is caught
handleItemUpdate(coll, fetched, t, storeUp) ==
  IF ~fetched.ok \/ ~storeUp
  THEN [err |-> TRUE, coll |-> coll, id |-> 0]
  ELSE LET productData == convertItemToProduct(fetched.item)
           r == ProductFindOneAndUpdate(coll, productData.id, productData, t)
       IN [err |-> r.err, coll |-> r.coll, id |-> productData.id]

\* a loop body that counts every item as synced
SyncLoopBody_NoCatch(err, counts) == [synced |-> counts.synced + 1, errors |-> counts.errors]
\* the try/catch around one item in the loop of the sync routes
SyncLoopBody(err, counts) ==
  IF err THEN [synced |-> counts.synced, errors |-> counts.errors + 1]
  ELSE [synced |-> counts.synced + 1, errors |-> counts.errors]

\* a response whose status tells whether an item failed
SyncRespond_PartialFailure(r) ==
  IF r.k = r.n
  THEN [r EXCEPT !.pc = "done", !.status = IF r.errors > 0 THEN 500 ELSE 200, !.total = r.n]
  ELSE r
\* res.json({ success: true, synced, errors, total }) once the loop is over
SyncRespond(r) ==
  IF r.k = r.n THEN [r EXCEPT !.pc = "done", !.status = 200, !.total = r.n] ELSE r

\* the request arrives and the route asks the platform for the list
SyncStart ==
  /\ run.pc = "idle"
  /\ run' = [run EXCEPT !.pc = "fetch"]
  /\ UNCHANGED <<backend, env, now, products, customers, orders, reqs, inv, unhandled, vcase, client, reg, tr, deletedSince>>

\* the platform answers with n items
SyncFetchOk ==
  /\ run.pc = "fetch"
  /\ \E n \in 0..MaxItems : run' = SyncRespond([run EXCEPT !.pc = "items", !.n = n])
  /\ UNCHANGED <<backend, env, now, products, customers, orders, reqs, inv, unhandled, vcase, client, reg, tr, deletedSince>>

\* a route without the outer catch: the failed run answers nothing
SyncFetchFail_NoAnswer ==
  /\ run.pc = "fetch"
  /\ run' = [run EXCEPT !.pc = "failed"]
  /\ UNCHANGED <<backend, env, now, products, customers, orders, reqs, inv, unhandled, vcase, client, reg, tr, deletedSince>>
\* the platform call fails: the outer catch answers 500
SyncFetchFail ==
  /\ run.pc = "fetch"
  /\ run' = [run EXCEPT !.pc = "done", !.status = 500]
  /\ UNCHANGED <<backend, env, now, products, customers, orders, reqs, inv, unhandled, vcase, client, reg, tr, deletedSince>>

\* one turn of the loop, and the response when it was the last
SyncStep(out, item) ==
  LET counts == SyncLoopBody(out.err, [synced |-> run.synced, errors |-> run.errors])
  IN /\ products' = out.coll
     /\ run' = SyncRespond([run EXCEPT !.k = @ + 1,
                                        !.synced = counts.synced,
                                        !.errors = counts.errors,
                                        !.fails = IF out.err THEN @ + 1 ELSE @,
                                        !.item = item,
                                        !.id = out.id,
                                        !.lastOk = ~out.err,
                                        !.repeat = ~out.err /\ run.lastOk /\ item = run.item])
     /\ UNCHANGED <<backend, env, now, customers, orders, reqs, inv, unhandled, vcase, client, reg, tr, deletedSince>>

SyncShopifyItem ==
  /\ backend = "shopify"
  /\ run.pc = "items"
  /\ \E product \in ShopifyProducts, storeUp \in BOOLEAN :
       SyncStep(handleProductUpdate(products, product, now, storeUp), product)

SyncLightspeedItem ==
  /\ backend = "lightspeed"
  /\ run.pc = "items"
  /\ \E id \in Ids, storeUp \in BOOLEAN :
       \E fetched \in {[ok |-> FALSE, item |-> NoItem]} \cup
                       {[ok |-> TRUE, item |-> e] : e \in LightspeedEntities("product", id)} :
         SyncStep(handleItemUpdate(products, fetched, now, storeUp), NoItem)

(***************************************************************************)
(* The loop of the products sync routes with its awaits apart: run.list is  *)
(* the list the platform returned, run.inflight the positions whose         *)
(* handler call is awaited, run.order the positions in the order their      *)
(* outcome was counted.                                                     *)
(***************************************************************************)
\* the products a list is made of: one per id, and one without id
ListedProducts == {p \in ShopifyProducts : p.variants = <<>>}
Lists == UNION {[1..n -> ListedProducts] : n \in 0..MaxItems}

\* the platform answers with the list
SyncListFetchOk ==
  /\ run.pc = "fetch"
  /\ \E list \in Lists :
       run' = SyncRespond([run EXCEPT !.pc = "items", !.n = Len(list), !.list = list])
  /\ deletedSince' = {}
  /\ UNCHANGED <<backend, env, now, products, customers, orders, reqs, inv, unhandled, vcase, client, reg, tr>>

\* a loop that calls the handler of every item without awaiting the one before
SyncItemStart_NoAwait ==
  /\ run.pc = "items"
  /\ run.started < run.n
  /\ run' = [run EXCEPT !.started = @ + 1, !.inflight = @ \cup {run.started + 1}]
  /\ UNCHANGED <<backend, env, now, products, customers, orders, reqs, inv, unhandled, vcase, client, reg, tr, deletedSince>>
\* for (const product of products) { try { await handle...Update(product):
\* the loop takes the next item of the list and calls the handler, which
\* runs up to its first await; the loop is suspended until the call settles
SyncItemStart ==
  /\ run.pc = "items"
  /\ run.inflight = {}
  /\ run.started < run.n
  /\ run' = [run EXCEPT !.started = @ + 1, !.inflight = {run.started + 1}]
  /\ UNCHANGED <<backend, env, now, products, customers, orders, reqs, inv, unhandled, vcase, client, reg, tr, deletedSince>>

\* the awaited call settles: synced++ or errors++, and the response when the
\* item was the last
SyncItemSettle ==
  /\ run.pc = "items"
  /\ \E j \in run.inflight, storeUp \in BOOLEAN :
       LET item == run.list[j]
           out == IF backend = "shopify"
                  THEN handleProductUpdate(products, item, now, storeUp)
                  ELSE handleItemUpdate(products,
                         IF item.id.t = "undefined" THEN [ok |-> FALSE, item |-> NoItem]
                         ELSE [ok |-> TRUE,
                               item |-> [itemID |-> item.id.n, description |-> item.title,
                                         amount |-> Str("9.99"), qoh |-> Str("5")]],
                         now, storeUp)
           counts == SyncLoopBody(out.err, [synced |-> run.synced, errors |-> run.errors])
       IN /\ products' = out.coll
          /\ run' = SyncRespond([run EXCEPT !.k = @ + 1,
                                             !.synced = counts.synced,
                                             !.errors = counts.errors,
                                             !.fails = IF out.err THEN @ + 1 ELSE @,
                                             !.id = out.id,
                                             !.lastOk = ~out.err,
                                             !.inflight = @ \ {j},
                                             !.order = Append(@, j)])
  /\ UNCHANGED <<backend, env, now, customers, orders, reqs, inv, unhandled, vcase, client, reg, tr, deletedSince>>

(***************************************************************************)
(* POST /api/shopify/sync/customers, on customers whose addresses differ    *)
(* in case as well.                                                         *)
(***************************************************************************)
MixedCaseEmails == Emails \cup {"A@X.com"}
MixedCaseCustomers == [id : IdVals, email : MixedCaseEmails]

\* ShopifyWebhookHandler.handleCustomerUpdate called at time t: translate,
\* then one findOneAndUpdate; any error is rethrown to the caller
handleCustomerUpdate(coll, shopifyCustomer, t, storeUp) ==
  LET customerData == convertShopifyCustomer(shopifyCustomer)
  IN IF customerData.threw \/ ~storeUp
     THEN [err |-> TRUE, coll |-> coll, id |-> 0]
     ELSE LET r == CustomerFindOneAndUpdate(coll, customerData.id, customerData, t)
          IN [err |-> r.err, coll |-> r.coll, id |-> customerData.id]

\* one turn of the loop of the customers sync, and the response when it
\* was the last
SyncCustomerItem ==
  /\ backend = "shopify"
  /\ run.pc = "items"
  /\ \E customer \in MixedCaseCustomers, storeUp \in BOOLEAN :
       LET out == handleCustomerUpdate(customers, customer, now, storeUp)
           counts == SyncLoopBody(out.err, [synced |-> run.synced, errors |-> run.errors])
       IN /\ customers' = out.coll
          /\ run' = SyncRespond([run EXCEPT !.k = @ + 1,
                                             !.synced = counts.synced,
                                             !.errors = counts.errors,
                                             !.fails = IF storeUp THEN @ ELSE @ + 1,
                                             !.item = customer,
                                             !.id = out.id,
                                             !.lastOk = ~out.err])
  /\ UNCHANGED <<backend, env, now, products, orders, reqs, inv, unhandled, vcase, client, reg, tr, deletedSince>>

(***************************************************************************)
(* POST /api/shopify/sync/all: products, then customers, then orders, each  *)
(* kind inside its own try/catch; run.stage is the kind under way and       *)
(* run.results holds the counts of the kinds already over.                  *)
(***************************************************************************)
StageKinds == <<"product", "customer", "order">>
StageTopic(stage) ==
  CASE stage = 1 -> "products/update"
    [] stage = 2 -> "customers/update"
    [] OTHER     -> "orders/updated"

\* results that keep the successes of a kind only
SyncAllAdvance_SyncedOnly(r) ==
  IF r.k < r.n THEN r
  ELSE LET results == Append(r.results, [kind |-> StageKinds[r.stage], synced |-> r.synced,
                                          errors |-> 0, total |-> r.total])
           cleared == [r EXCEPT !.results = results, !.n = 0, !.k = 0,
                                !.synced = 0, !.errors = 0, !.total = 0]
       IN IF r.stage = Len(StageKinds)
          THEN [cleared EXCEPT !.pc = "done", !.status = 200]
          ELSE [cleared EXCEPT !.pc = "allfetch", !.stage = r.stage + 1]
\* the end of one kind: its counts are kept in results; after the orders
\* the route answers res.json({ success: true, results })
SyncAllAdvance(r) ==
  IF r.k < r.n THEN r
  ELSE LET results == Append(r.results, [kind |-> StageKinds[r.stage], synced |-> r.synced,
                                          errors |-> r.errors, total |-> r.total])
           cleared == [r EXCEPT !.results = results, !.n = 0, !.k = 0,
                                !.synced = 0, !.errors = 0, !.total = 0]
       IN IF r.stage = Len(StageKinds)
          THEN [cleared EXCEPT !.pc = "done", !.status = 200]
          ELSE [cleared EXCEPT !.pc = "allfetch", !.stage = r.stage + 1]

\* the request arrives and the route asks the platform for the products
SyncAllStart ==
  /\ backend = "shopify"
  /\ run.pc = "idle"
  /\ run' = [run EXCEPT !.pc = "allfetch", !.stage = 1]
  /\ UNCHANGED <<backend, env, now, products, customers, orders, reqs, inv, unhandled, vcase, client, reg, tr, deletedSince>>

\* the platform answers with the n entities of the kind: results.kind.total = n
SyncAllFetchOk ==
  /\ run.pc = "allfetch"
  /\ \E n \in 0..MaxPerKind :
       run' = SyncAllAdvance([run EXCEPT !.pc = "allitems", !.n = n, !.total = n])
  /\ UNCHANGED <<backend, env, now, products, customers, orders, reqs, inv, unhandled, vcase, client, reg, tr, deletedSince>>

\* the platform call fails: the catch of the kind logs it, the counts of the
\* kind stay zero and the route goes on with the next kind
SyncAllFetchFail ==
  /\ run.pc = "allfetch"
  /\ run' = SyncAllAdvance([run EXCEPT !.fails = @ + 1])
  /\ UNCHANGED <<backend, env, now, products, customers, orders, reqs, inv, unhandled, vcase, client, reg, tr, deletedSince>>

\* one turn of the loop of the kind under way: handleProductUpdate,
\* handleCustomerUpdate or handleOrderUpdate inside the inner try/catch
SyncAllItem ==
  /\ run.pc = "allitems"
  /\ \E data \in ShopifyPayloads(StageTopic(run.stage)), storeUp \in BOOLEAN :
       LET op == ShopifyDispatch(StageTopic(run.stage), data, now)
           r  == ApplyOp(op, products, customers, orders)
           err == op.type = "throw" \/ ~storeUp \/ r.err
           counts == SyncLoopBody(err, [synced |-> run.synced, errors |-> run.errors])
       IN /\ products'  = IF err THEN products ELSE r.products
          /\ customers' = IF err THEN customers ELSE r.customers
          /\ orders'    = IF err THEN orders ELSE r.orders
          /\ run' = SyncAllAdvance([run EXCEPT !.k = @ + 1,
                                                !.synced = counts.synced,
                                                !.errors = counts.errors])
  /\ UNCHANGED <<backend, env, now, reqs, inv, unhandled, vcase, client, reg, tr, deletedSince>>

(***************************************************************************)
(* Inventory routes of the Shopify server:                                  *)
(* PUT /api/products/:id/inventory and POST /api/products/:id/inventory/adjust *)
(***************************************************************************)
\* req.body.quantity / req.body.adjustment
InvArgs == {Undefined, Num(3), Num(-1), Str("0"), Str("abc")}

\* what the route assigns to the loaded document before it saves it:
\* stockQuantity, then inStock
InvAssign(kind, snap, arg) ==
  LET q == parseInt(arg)
      stock == IF kind = "set" THEN q
               ELSE IF q.t = "number" THEN Num(snap.stockQuantity + q.n) ELSE NaN
  IN [stockQuantity |-> stock, inStock |-> Gt0(stock)]

\* product.save(): mongoose validates, then sends a $set of the paths whose
\* assigned value differs from the loaded one to the document with the _id
\* of the loaded one.  `strict` says whether the validation covers the
\* paths that were loaded and not modified.
ProductSave(coll, id, gen, snap, assigned, strict, t) ==
  LET stockModified == assigned.stockQuantity.t = "number" /\
                       assigned.stockQuantity.n # snap.stockQuantity
      stockAfter    == IF stockModified THEN assigned.stockQuantity.n ELSE snap.stockQuantity
      inStockModified == assigned.inStock # snap.inStock
      invalid == \/ assigned.stockQuantity.t # "number"
                 \/ stockModified /\ stockAfter < 0
                 \/ strict /\ stockAfter < 0
      found == coll[id].present /\ coll[id].gen = gen
  IN IF invalid \/ ~found
     THEN [err |-> TRUE, coll |-> coll]
     ELSE [err |-> FALSE,
           coll |-> [coll EXCEPT ![id] =
                       [@ EXCEPT !.stockQuantity = IF stockModified THEN stockAfter ELSE @,
                                 !.inStock = IF inStockModified THEN assigned.inStock ELSE @,
                                 !.updatedAt = t]]]

\* the request arrives: findById, then the check of the body
InvRequest ==
  /\ backend = "shopify"
  /\ Len(inv) < MaxInvCalls
  /\ \E kind \in {"set", "adjust"}, id \in Ids, arg \in InvArgs :
       LET call == [kind |-> kind, id |-> id, gen |-> products[id].gen, arg |-> arg,
                    snap |-> [stockQuantity |-> products[id].stockQuantity,
                              inStock |-> products[id].inStock],
                    pc |-> "platform", status |-> 0]
       IN inv' = Append(inv,
                   IF ~products[id].present THEN [call EXCEPT !.pc = "done", !.status = 404]
                   ELSE IF arg.t = "undefined" THEN [call EXCEPT !.pc = "done", !.status = 400]
                   ELSE call)
  /\ UNCHANGED <<backend, env, now, products, customers, orders, reqs, run, unhandled, vcase, client, reg, tr, deletedSince>>

\* a platform call of the route fails (500), or the variant is not found (404)
InvPlatformFail(i) ==
  /\ inv[i].pc = "platform"
  /\ \E st \in {404, 500} : inv' = [inv EXCEPT ![i] = [@ EXCEPT !.pc = "done", !.status = st]]
  /\ UNCHANGED <<backend, env, now, products, customers, orders, reqs, run, unhandled, vcase, client, reg, tr, deletedSince>>

\* the platform calls succeeded: assign to the loaded document and save it
InvSave(i) ==
  /\ inv[i].pc = "platform"
  /\ \E strict \in BOOLEAN :
       LET c == inv[i]
           r == ProductSave(products, c.id, c.gen, c.snap, InvAssign(c.kind, c.snap, c.arg),
                            strict, now)
       IN /\ products' = r.coll
          /\ inv' = [inv EXCEPT ![i] = [@ EXCEPT !.pc = "done",
                                                 !.status = IF r.err THEN 500 ELSE 200]]
  /\ UNCHANGED <<backend, env, now, customers, orders, reqs, run, unhandled, vcase, client, reg, tr, deletedSince>>

\* handleProductUpdate reached through a webhook or a bulk sync while
\* inventory calls are in progress
ProductUpsert ==
  /\ backend = "shopify"
  /\ \E product \in ShopifyProducts :
       LET r == handleProductUpdate(products, product, now, TRUE)
       IN ~r.err /\ products' = r.coll
  /\ UNCHANGED <<backend, env, now, customers, orders, reqs, run, inv, unhandled, vcase, client, reg, tr, deletedSince>>

\* handleProductDelete reached through a webhook
ProductDelete ==
  /\ backend = "shopify"
  /\ \E id \in Ids :
       /\ products[id].present
       /\ products[id].gen <= MaxDeletes
       /\ products' = ProductFindOneAndDelete(products, id)
  /\ UNCHANGED <<backend, env, now, customers, orders, reqs, run, inv, unhandled, vcase, client, reg, tr, deletedSince>>

(***************************************************************************)
(* Order events handled one after the other: handleWebhook(topic, data) of  *)
(* the Shopify handler is called for an order topic and runs to its end     *)
(* before the next event arrives.  reqs holds the event handled last.       *)
(***************************************************************************)
ShopifyOrderTopics == {"orders/create", "orders/updated", "orders/cancelled"}

HandleOrderEvent ==
  /\ backend = "shopify"
  /\ \E topic \in ShopifyOrderTopics, data \in ShopifyOrders :
       LET op == ShopifyDispatch(topic, data, now)
           r  == ApplyOp(op, products, customers, orders)
           failed == op.type = "throw" \/ r.err
           task == Task([status |-> 200, verified |-> TRUE, invoked |-> TRUE], TRUE, topic, op)
       IN /\ orders' = r.orders
          /\ reqs' = <<[task EXCEPT !.pc = "done", !.settle = handleWebhookSettle(failed),
                                    !.wrote = ~failed]>>
  /\ UNCHANGED <<backend, env, now, products, customers, run, inv, unhandled, vcase, client, reg, tr, deletedSince>>

(***************************************************************************)
(* Product events handled while a bulk sync of products is under way:       *)
(* handleWebhook(topic, data) of the Shopify handler is called for a        *)
(* product topic and runs to its end between two steps of the sync loop.    *)
(* reqs holds the event handled last.                                       *)
(***************************************************************************)
ShopifyProductTopics == {"products/create", "products/update", "products/delete"}

HandleProductEvent ==
  /\ backend = "shopify"
  /\ \E topic \in ShopifyProductTopics, data \in ListedProducts :
       LET op == ShopifyDispatch(topic, data, now)
           r  == ApplyOp(op, products, customers, orders)
           failed == op.type = "throw" \/ r.err
           task == Task([status |-> 200, verified |-> TRUE, invoked |-> TRUE], TRUE, topic, op)
       IN /\ op.type # "throw" => products[op.id].gen <= MaxDeletes
          /\ products' = r.products
          /\ reqs' = <<[task EXCEPT !.pc = "done", !.settle = handleWebhookSettle(failed),
                                    !.wrote = ~failed]>>
          /\ deletedSince' = IF op.type = "delete" /\ ~failed
                             THEN deletedSince \cup {op.id} ELSE deletedSince
  /\ UNCHANGED <<backend, env, now, customers, orders, run, inv, unhandled, vcase, client, reg, tr>>

(***************************************************************************)
(* Concurrent upserts of products.  handleProductUpdate is called from a    *)
(* webhook or from a bulk-sync item while another call is in progress.  The *)
(* store runs findOneAndUpdate with upsert in two steps: it looks for the   *)
(* document and updates it when there is one; when there is none it inserts *)
(* one, and the unique index on shopifyId rejects the insert when another   *)
(* call inserted the id in between.  The server then either retries the     *)
(* operation as an update or answers with the duplicate key error,          *)
(* depending on its version.                                               *)
(***************************************************************************)
\* handleProductUpdate called: translate, then issue findOneAndUpdate
UpsertIssue ==
  /\ backend = "shopify"
  /\ Len(reqs) < MaxWebhooks
  /\ \E product \in ShopifyProducts :
       LET op == UpsertOp("product", convertShopifyProduct(product), now)
       IN reqs' = Append(reqs, Task([status |-> 200, verified |-> TRUE, invoked |-> TRUE],
                                    TRUE, "products/update", op))
  /\ UNCHANGED <<backend, env, now, products, customers, orders, run, inv, unhandled, vcase, client, reg, tr, deletedSince>>

\* the store looks for the document of the id: it updates the one it finds
UpsertMatch(i) ==
  /\ reqs[i].pc = "store"
  /\ LET op == reqs[i].op
     IN IF products[op.id].present
        THEN /\ products' = ProductWrite(products, op.id, op.rec, op.at)
             /\ reqs' = [reqs EXCEPT ![i] = [@ EXCEPT !.pc = "done", !.wrote = TRUE,
                                                      !.settle = handleWebhookSettle(FALSE)]]
        ELSE /\ products' = products
             /\ reqs' = [reqs EXCEPT ![i] = [@ EXCEPT !.pc = "insert"]]
  /\ UNCHANGED <<backend, env, now, customers, orders, run, inv, unhandled, vcase, client, reg, tr, deletedSince>>

\* the store inserts the document it did not find
UpsertInsert(i) ==
  /\ reqs[i].pc = "insert"
  /\ LET op == reqs[i].op
     IN \E retried \in BOOLEAN :
          LET duplicate == products[op.id].present
              failed == duplicate /\ ~retried
          IN /\ products' = IF failed THEN products
                             ELSE ProductWrite(products, op.id, op.rec, op.at)
             /\ reqs' = [reqs EXCEPT ![i] = [@ EXCEPT !.pc = "done", !.wrote = ~failed,
                                                      !.settle = handleWebhookSettle(failed)]]
  /\ UNCHANGED <<backend, env, now, customers, orders, run, inv, unhandled, vcase, client, reg, tr, deletedSince>>

(***************************************************************************)
(* Direct calls of verifyWebhook on bodies given byte by byte               *)
(***************************************************************************)
Bytes == {0, 1, 2}
RECURSIVE SeqsUpTo(_)
SeqsUpTo(n) ==
  IF n = 0 THEN {<<>>}
  ELSE LET shorter == SeqsUpTo(n - 1)
       IN shorter \cup {Append(b, x) : b \in {c \in shorter : Len(c) = n - 1}, x \in Bytes}
Bodies == SeqsUpTo(MaxLen)

NoCall == [called |-> FALSE, key |-> "", signed |-> <<>>, body |-> <<>>, threw |-> FALSE,
           valid |-> FALSE]

\* verifyWebhook(body, header) where the header is the signature of `signed`
VerifyCall(signed, body) ==
  LET r == verifyWebhook(body, {Hmac(WebhookSecret(env), signed)})
  IN /\ vcase' = [called |-> TRUE, key |-> WebhookSecret(env), signed |-> signed, body |-> body,
                  threw |-> r.threw, valid |-> r.valid]
     /\ UNCHANGED <<backend, env, now, products, customers, orders, reqs, run, inv, unhandled, client, reg, tr, deletedSince>>

\* the body arrives as the sender signed it
VerifySigned == \E B \in Bodies : VerifyCall(B, B)

\* one byte of the body was changed after the sender signed it
VerifyTampered ==
  \E B \in Bodies : \E k \in 1..Len(B) : \E x \in Bytes \ {B[k]} :
    VerifyCall(B, [B EXCEPT ![k] = x])

\* the sender signed the body with one of the two secrets
VerifyWithKey ==
  /\ \E key \in Keys, B \in Bodies :
       LET r == verifyWebhook(B, {Hmac(key, B)})
       IN vcase' = [called |-> TRUE, key |-> key, signed |-> B, body |-> B,
                    threw |-> r.threw, valid |-> r.valid]
  /\ UNCHANGED <<backend, env, now, products, customers, orders, reqs, run, inv, unhandled, client, reg, tr, deletedSince>>

(***************************************************************************)
(* LightspeedRSeriesService: ensureValidToken, refreshAccessToken and       *)
(* request.  Tokens are numbered in the order the OAuth server issued them; *)
(* 0 is the null of the constructor.                                        *)
(***************************************************************************)
Statuses == {200, 401, 500}
NoClient == [accessToken |-> 0, expired |-> FALSE, calls |-> 0, pc |-> "idle",
             fetches |-> 0, sent |-> <<>>, first |-> 0, refreshed |-> FALSE,
             retry |-> 0, result |-> "none"]

\* the token is within five minutes of tokenExpiry
TokenExpires ==
  /\ client.accessToken # 0
  /\ client.pc \in {"idle", "returned", "threw"}
  /\ ~client.expired
  /\ client' = [client EXCEPT !.expired = TRUE]
  /\ UNCHANGED <<backend, env, now, products, customers, orders, reqs, run, inv, unhandled, vcase, reg, tr, deletedSince>>

\* const config = { headers: { Authorization: `Bearer ${this.accessToken}` } };
\* fetch(url, config) is issued with the token of that moment
IssueFetch(c) ==
  [c EXCEPT !.pc = "fetch", !.fetches = 1, !.sent = <<c.accessToken>>]

\* request(endpoint) is called: ensureValidToken throws when there is no
\* token (loadTokens loads nothing), refreshes first when the token is
\* about to expire, and otherwise the endpoint is fetched
RequestCall ==
  /\ client.pc \in {"idle", "returned", "threw"}
  /\ client.calls < MaxCalls
  /\ LET c == [client EXCEPT !.calls = @ + 1, !.fetches = 0, !.sent = <<>>, !.first = 0,
                              !.refreshed = FALSE, !.retry = 0, !.result = "none"]
     IN client' = CASE c.accessToken = 0 -> [c EXCEPT !.pc = "threw", !.result = "thrown"]
                    [] c.expired         -> [c EXCEPT !.pc = "ensure"]
                    [] OTHER             -> IssueFetch(c)
  /\ UNCHANGED <<backend, env, now, products, customers, orders, reqs, run, inv, unhandled, vcase, reg, tr, deletedSince>>

\* refreshAccessToken as ensureValidToken awaits it: on success the new
\* token and expiry are stored; its result is not looked at
RequestEnsured ==
  /\ client.pc = "ensure"
  /\ \E ok \in BOOLEAN :
       client' = IssueFetch(IF ok THEN [client EXCEPT !.accessToken = @ + 1, !.expired = FALSE]
                            ELSE client)
  /\ UNCHANGED <<backend, env, now, products, customers, orders, reqs, run, inv, unhandled, vcase, reg, tr, deletedSince>>

\* the first fetch settles: a network error or an unreadable body is
\* rethrown by the catch, an OK response is returned, a 401 starts the
\* refresh, any other status throws Error(data.message)
RequestFetched ==
  /\ client.pc = "fetch"
  /\ \/ client' = [client EXCEPT !.pc = "threw", !.result = "thrown"]
     \/ \E st \in Statuses :
          client' = CASE st = 200 -> [client EXCEPT !.pc = "returned", !.first = st, !.result = "data"]
                      [] st = 401 -> [client EXCEPT !.pc = "refresh", !.first = st]
                      [] OTHER    -> [client EXCEPT !.pc = "threw", !.first = st, !.result = "thrown"]
  /\ UNCHANGED <<backend, env, now, products, customers, orders, reqs, run, inv, unhandled, vcase, reg, tr, deletedSince>>

\* a refresh after which the retry goes out with the header of the first fetch
RequestRefreshOk_StaleHeader ==
  /\ client.pc = "refresh"
  /\ client' = [client EXCEPT !.accessToken = @ + 1, !.expired = FALSE, !.refreshed = TRUE,
                               !.pc = "retry", !.fetches = @ + 1,
                               !.sent = Append(@, client.sent[1])]
  /\ UNCHANGED <<backend, env, now, products, customers, orders, reqs, run, inv, unhandled, vcase, reg, tr, deletedSince>>
\* refreshAccessToken returned true: the header is rebuilt with the new
\* token and the endpoint is fetched again
RequestRefreshOk ==
  /\ client.pc = "refresh"
  /\ client' = [client EXCEPT !.accessToken = @ + 1, !.expired = FALSE, !.refreshed = TRUE,
                               !.pc = "retry", !.fetches = @ + 1,
                               !.sent = Append(@, client.accessToken + 1)]
  /\ UNCHANGED <<backend, env, now, products, customers, orders, reqs, run, inv, unhandled, vcase, reg, tr, deletedSince>>

\* refreshAccessToken returned false: throw new Error(data.message)
RequestRefreshFail ==
  /\ client.pc = "refresh"
  /\ client' = [client EXCEPT !.pc = "threw", !.result = "thrown"]
  /\ UNCHANGED <<backend, env, now, products, customers, orders, reqs, run, inv, unhandled, vcase, reg, tr, deletedSince>>

\* the retried fetch settles: return await retryResponse.json(), whatever
\* the status; a network error or an unreadable body is rethrown
RequestRetried ==
  /\ client.pc = "retry"
  /\ \/ client' = [client EXCEPT !.pc = "threw", !.result = "thrown"]
     \/ \E st \in Statuses :
          client' = [client EXCEPT !.pc = "returned", !.retry = st,
                                   !.result = IF st = 200 THEN "data" ELSE "error body"]
  /\ UNCHANGED <<backend, env, now, products, customers, orders, reqs, run, inv, unhandled, vcase, reg, tr, deletedSince>>

(***************************************************************************)
(* Webhook registration: POST /api/shopify/webhooks/register and            *)
(* POST /api/lightspeed/webhook/register.  A URL is its scheme and the      *)
(* labels of its host; reg.calls counts the webhook-creation calls made to  *)
(* the platform.                                                            *)
(***************************************************************************)
Hosts == {<<"localhost">>, <<"127", "0", "0", "1">>, <<"[::1]">>,
          <<"shop", "example", "com">>, <<"localhost", "example", "com">>}
NoUrl == [set |-> FALSE, scheme |-> "", host |-> <<>>]
PublicUrls == {NoUrl} \cup [set : {TRUE}, scheme : {"http", "https"}, host : Hosts]

\* the host names the machine itself: localhost, 127.0.0.0/8 or ::1
IsLoopback(url) ==
  url.set /\ (url.host = <<"localhost">> \/ url.host[1] = "127" \/ url.host = <<"[::1]">>)

\* process.env.PUBLIC_URL || 'https://your-domain.com'
BaseUrl(url) ==
  IF url.set THEN url ELSE [set |-> TRUE, scheme |-> "https", host |-> <<"your-domain", "com">>]

\* baseUrl.includes('localhost')
IncludesLocalhost(url) == \E j \in 1..Len(url.host) : url.host[j] = "localhost"

\* what each register route tests before it calls the platform: the Shopify
\* route looks for 'localhost' in the text, the Lightspeed route tests nothing
RegisterGuard(bk, url) == bk = "shopify" /\ IncludesLocalhost(BaseUrl(url))

\* the topics each route registers
RegisterTopics(bk) ==
  IF bk = "shopify"
  THEN <<"products/create", "products/update", "products/delete",
         "customers/create", "customers/update", "customers/delete",
         "orders/create", "orders/updated", "orders/cancelled">>
  ELSE <<"item.create,item.update,item.delete,customer.create,customer.update,customer.delete,sale.create,sale.update,sale.delete">>

NoReg == [pc |-> "idle", url |-> NoUrl, status |-> 0, k |-> 0, calls |-> 0, webhooks |-> 0]

\* the request arrives: 400 when the guard turns the URL away, otherwise the
\* route starts calling the platform
RegisterRequest ==
  /\ reg.pc = "idle"
  /\ \E url \in PublicUrls :
       reg' = IF RegisterGuard(backend, url)
              THEN [reg EXCEPT !.pc = "done", !.url = url, !.status = 400]
              ELSE [reg EXCEPT !.pc = "creating", !.url = url]
  /\ UNCHANGED <<backend, env, now, products, customers, orders, reqs, run, inv, unhandled, vcase, client, tr, deletedSince>>

\* one webhook-creation call settles.  registerWebhooks (Shopify) catches
\* a failure per topic and goes on; registerWebhook (Lightspeed) makes one
\* call for all topics and rethrows, and the route answers 500
RegisterCreate ==
  /\ reg.pc = "creating"
  /\ \E ok \in BOOLEAN :
       LET r == [reg EXCEPT !.k = @ + 1, !.calls = @ + 1,
                            !.webhooks = IF ok THEN @ + 1 ELSE @]
       IN reg' = CASE backend = "lightspeed" /\ ~ok -> [r EXCEPT !.pc = "done", !.status = 500]
                   [] r.k = Len(RegisterTopics(backend)) -> [r EXCEPT !.pc = "done", !.status = 200]
                   [] OTHER -> r
  /\ UNCHANGED <<backend, env, now, products, customers, orders, reqs, run, inv, unhandled, vcase, client, tr, deletedSince>>

(***************************************************************************)
(* The translators called directly.  The fields with a default (brand,      *)
(* category, imageUrl, images) are translated apart from the fields the     *)
(* store keeps.                                                             *)
(***************************************************************************)
Placeholder == "https://via.placeholder.com/400"
NoTranslation == [fn |-> "none", arg |-> NoPayload, out |-> NoPayload]

\* images of a payload: absent, an array of sources, or (Lightspeed, one
\* image) a single object in place of the array
ImageValues == {[t |-> "absent", list |-> <<>>], [t |-> "array", list |-> <<>>],
                [t |-> "array", list |-> <<"a.png">>], [t |-> "array", list |-> <<"a.png", "b.png">>],
                [t |-> "object", list |-> <<"a.png">>]}
\* product.image of Shopify: the first of product.images, or null
ImageOf(images) == IF Len(images.list) > 0 THEN Str(images.list[1]) ELSE Undefined
\* Shopify product: { vendor, product_type, images: [{ src }], image: { src } }
ShopifyLabelled ==
  {p \in [vendor : {Undefined, Str(""), Str("Dyson")},
          product_type : {Undefined, Str(""), Str("Vacuums")},
          images : {i \in ImageValues : i.t # "object"},
          image : {Undefined, Str("a.png")}] : p.image = ImageOf(p.images)}
\* Lightspeed Item: { Manufacturer: { name }, Category: { name }, Images: { Image: [{ baseImageURL }] } }
LightspeedLabelled ==
  [Manufacturer : {Undefined, Str(""), Str("Dyson")},
   Category : {Undefined, Str(""), Str("Vacuums")},
   Images : ImageValues]

\* images?.[0]?.src
FirstOf(images) ==
  IF images.t = "array" /\ Len(images.list) > 0 THEN Str(images.list[1]) ELSE Undefined

\* convertShopifyProduct: mainImage, images, brand, category
convertShopifyProductLabels(product) ==
  [threw    |-> FALSE,
   brand    |-> Or(product.vendor, Str("Unknown")),
   category |-> Or(product.product_type, Str("Uncategorized")),
   imageUrl |-> Or(Or(FirstOf(product.images), product.image), Str(Placeholder)),
   images   |-> IF product.images.t = "array" THEN product.images.list ELSE <<>>]

\* a translator that passes the fields on as they came
convertItemToProductLabels_NoDefaults(item) ==
  [threw    |-> item.Images.t = "object",
   brand    |-> item.Manufacturer,
   category |-> item.Category,
   imageUrl |-> FirstOf(item.Images),
   images   |-> IF item.Images.t = "array" THEN item.Images.list ELSE <<>>]
\* convertItemToProduct: brand, category, imageUrl, images;
\* item.Images.Image.map is not a function when Image is a single object
convertItemToProductLabels(item) ==
  [threw    |-> item.Images.t = "object",
   brand    |-> Or(item.Manufacturer, Str("Unknown")),
   category |-> Or(item.Category, Str("Uncategorized")),
   imageUrl |-> Or(FirstOf(item.Images), Str(Placeholder)),
   images   |-> IF item.Images.t = "array" THEN item.Images.list ELSE <<>>]

TranslateShopifyLabels ==
  /\ \E product \in ShopifyLabelled :
       tr' = [fn |-> "convertShopifyProduct", arg |-> product,
              out |-> convertShopifyProductLabels(product)]
  /\ UNCHANGED <<backend, env, now, products, customers, orders, reqs, run, inv, unhandled, vcase, client, reg, deletedSince>>

TranslateItemLabels ==
  /\ \E item \in LightspeedLabelled :
       tr' = [fn |-> "convertItemToProduct", arg |-> item,
              out |-> convertItemToProductLabels(item)]
  /\ UNCHANGED <<backend, env, now, products, customers, orders, reqs, run, inv, unhandled, vcase, client, reg, deletedSince>>

\* the translator of the fields the store keeps, applied to a payload
TranslateShopifyProduct ==
  /\ \E product \in ShopifyProducts :
       tr' = [fn |-> "convertShopifyProduct", arg |-> product, out |-> convertShopifyProduct(product)]
  /\ UNCHANGED <<backend, env, now, products, customers, orders, reqs, run, inv, unhandled, vcase, client, reg, deletedSince>>

TranslateItem ==
  /\ \E item \in LightspeedItems :
       tr' = [fn |-> "convertItemToProduct", arg |-> item, out |-> convertItemToProduct(item)]
  /\ UNCHANGED <<backend, env, now, products, customers, orders, reqs, run, inv, unhandled, vcase, client, reg, deletedSince>>

TranslateShopifyOrder ==
  /\ \E order \in ShopifyOrders :
       tr' = [fn |-> "convertShopifyOrder", arg |-> order, out |-> convertShopifyOrder(order, now)]
  /\ UNCHANGED <<backend, env, now, products, customers, orders, reqs, run, inv, unhandled, vcase, client, reg, deletedSince>>

TranslateSale ==
  /\ \E sale \in LightspeedSales :
       tr' = [fn |-> "convertSale", arg |-> sale, out |-> convertSale(sale, now)]
  /\ UNCHANGED <<backend, env, now, products, customers, orders, reqs, run, inv, unhandled, vcase, client, reg, deletedSince>>

(***************************************************************************)
(* Specification                                                            *)
(***************************************************************************)
Envs == [SHOPIFY_WEBHOOK_SECRET : {"", "whsec"}, SHOPIFY_API_SECRET : {"", "apisec"}]
\* the deployment the server runs in: both secrets set
DeployedEnv == [SHOPIFY_WEBHOOK_SECRET |-> "whsec", SHOPIFY_API_SECRET |-> "apisec"]

Init ==
  /\ backend \in {"shopify", "lightspeed"}
  /\ env = DeployedEnv
  /\ now = 0
  /\ products = [i \in Ids |-> AbsentProduct(0)]
  /\ customers = [i \in Ids |-> AbsentCustomer(0)]
  /\ orders = [i \in Ids |-> AbsentOrder(0)]
  /\ reqs = <<>>
  /\ run = IdleRun
  /\ inv = <<>>
  /\ unhandled = 0
  /\ vcase = NoCall
  /\ client = NoClient
  /\ reg = NoReg
  /\ tr = NoTranslation
  /\ deletedSince = {}

Next ==
  \/ ShopifyWebhook
  \/ LightspeedWebhook
  \/ \E i \in 1..Len(reqs) : RefetchOk(i)
  \/ \E i \in 1..Len(reqs) : RefetchFail(i)
  \/ \E i \in 1..Len(reqs) : StoreOk(i)
  \/ \E i \in 1..Len(reqs) : StoreFail(i)


Spec == Init /\ [][Next]_vars

\* the verifier alone, under every environment that configures a secret
InitVerify ==
  /\ backend = "shopify"
  /\ env \in {e \in Envs : WebhookSecret(e) # ""}
  /\ now = 0
  /\ products = [i \in Ids |-> AbsentProduct(0)]
  /\ customers = [i \in Ids |-> AbsentCustomer(0)]
  /\ orders = [i \in Ids |-> AbsentOrder(0)]
  /\ reqs = <<>>
  /\ run = IdleRun
  /\ inv = <<>>
  /\ unhandled = 0
  /\ vcase = NoCall
  /\ client = NoClient
  /\ reg = NoReg
  /\ tr = NoTranslation
  /\ deletedSince = {}

NextVerify == VerifySigned \/ VerifyTampered

SpecVerify == InitVerify /\ [][NextVerify]_vars

\* the verifier on bodies signed with either secret, under every
\* environment that configures a secret
NextSecrets == VerifyWithKey

SpecSecrets == InitVerify /\ [][NextSecrets]_vars

\* one bulk sync of products, with the clock running
InitSync ==
  /\ backend \in {"shopify", "lightspeed"}
  /\ env = DeployedEnv
  /\ now = 0
  /\ products = [i \in Ids |-> AbsentProduct(0)]
  /\ customers = [i \in Ids |-> AbsentCustomer(0)]
  /\ orders = [i \in Ids |-> AbsentOrder(0)]
  /\ reqs = <<>>
  /\ run = IdleRun
  /\ inv = <<>>
  /\ unhandled = 0
  /\ vcase = NoCall
  /\ client = NoClient
  /\ reg = NoReg
  /\ tr = NoTranslation
  /\ deletedSince = {}

NextSync ==
  \/ SyncStart
  \/ SyncFetchOk
  \/ SyncFetchFail
  \/ SyncShopifyItem
  \/ SyncLightspeedItem
  \/ Tick

SpecSync == InitSync /\ [][NextSync]_vars

\* order events of the Shopify handler, one at a time
InitOrders ==
  /\ backend = "shopify"
  /\ env = DeployedEnv
  /\ now = 0
  /\ products = [i \in Ids |-> AbsentProduct(0)]
  /\ customers = [i \in Ids |-> AbsentCustomer(0)]
  /\ orders = [i \in Ids |-> AbsentOrder(0)]
  /\ reqs = <<>>
  /\ run = IdleRun
  /\ inv = <<>>
  /\ unhandled = 0
  /\ vcase = NoCall
  /\ client = NoClient
  /\ reg = NoReg
  /\ tr = NoTranslation
  /\ deletedSince = {}

NextOrders == HandleOrderEvent

SpecOrders == InitOrders /\ [][NextOrders]_vars

\* concurrent calls of handleProductUpdate
InitRace ==
  /\ backend = "shopify"
  /\ env = DeployedEnv
  /\ now = 0
  /\ products = [i \in Ids |-> AbsentProduct(0)]
  /\ customers = [i \in Ids |-> AbsentCustomer(0)]
  /\ orders = [i \in Ids |-> AbsentOrder(0)]
  /\ reqs = <<>>
  /\ run = IdleRun
  /\ inv = <<>>
  /\ unhandled = 0
  /\ vcase = NoCall
  /\ client = NoClient
  /\ reg = NoReg
  /\ tr = NoTranslation
  /\ deletedSince = {}

NextRace ==
  \/ UpsertIssue
  \/ \E i \in 1..Len(reqs) : UpsertMatch(i)
  \/ \E i \in 1..Len(reqs) : UpsertInsert(i)

SpecRace == InitRace /\ [][NextRace]_vars

\* one bulk sync, of the products or of all kinds, in which every platform
\* call and every store call that is awaited returns or fails
NextBulk ==
  \/ SyncStart
  \/ SyncFetchOk
  \/ SyncFetchFail
  \/ SyncShopifyItem
  \/ SyncLightspeedItem
  \/ SyncAllStart
  \/ SyncAllFetchOk
  \/ SyncAllFetchFail
  \/ SyncAllItem

SpecBulkFair ==
  /\ InitSync
  /\ [][NextBulk]_vars
  /\ WF_vars(SyncFetchOk \/ SyncFetchFail)
  /\ WF_vars(SyncShopifyItem \/ SyncLightspeedItem)
  /\ WF_vars(SyncAllFetchOk \/ SyncAllFetchFail)
  /\ WF_vars(SyncAllItem)

\* one bulk sync of products, every await of its loop a step
NextLoop ==
  \/ SyncStart
  \/ SyncListFetchOk
  \/ SyncFetchFail
  \/ SyncItemStart
  \/ SyncItemSettle

SpecLoop == InitSync /\ [][NextLoop]_vars

\* calls of request() on the service, one at a time, before and after the
\* OAuth flow has stored a token
InitRequest ==
  /\ backend = "lightspeed"
  /\ env = DeployedEnv
  /\ now = 0
  /\ products = [i \in Ids |-> AbsentProduct(0)]
  /\ customers = [i \in Ids |-> AbsentCustomer(0)]
  /\ orders = [i \in Ids |-> AbsentOrder(0)]
  /\ reqs = <<>>
  /\ run = IdleRun
  /\ inv = <<>>
  /\ unhandled = 0
  /\ vcase = NoCall
  /\ \E token \in {0, 1} : client = [NoClient EXCEPT !.accessToken = token]
  /\ reg = NoReg
  /\ tr = NoTranslation
  /\ deletedSince = {}

NextRequest ==
  \/ TokenExpires
  \/ RequestCall
  \/ RequestEnsured
  \/ RequestFetched
  \/ RequestRefreshOk
  \/ RequestRefreshFail
  \/ RequestRetried

SpecRequest == InitRequest /\ [][NextRequest]_vars

\* one registration request on either server, under every PUBLIC_URL
InitRegister ==
  /\ backend \in {"shopify", "lightspeed"}
  /\ env = DeployedEnv
  /\ now = 0
  /\ products = [i \in Ids |-> AbsentProduct(0)]
  /\ customers = [i \in Ids |-> AbsentCustomer(0)]
  /\ orders = [i \in Ids |-> AbsentOrder(0)]
  /\ reqs = <<>>
  /\ run = IdleRun
  /\ inv = <<>>
  /\ unhandled = 0
  /\ vcase = NoCall
  /\ client = NoClient
  /\ reg = NoReg
  /\ tr = NoTranslation
  /\ deletedSince = {}

NextRegister ==
  \/ RegisterRequest
  \/ RegisterCreate

SpecRegister == InitRegister /\ [][NextRegister]_vars

\* the translators applied to every payload of the model
InitTranslate ==
  /\ backend = "shopify"
  /\ env = DeployedEnv
  /\ now = 0
  /\ products = [i \in Ids |-> AbsentProduct(0)]
  /\ customers = [i \in Ids |-> AbsentCustomer(0)]
  /\ orders = [i \in Ids |-> AbsentOrder(0)]
  /\ reqs = <<>>
  /\ run = IdleRun
  /\ inv = <<>>
  /\ unhandled = 0
  /\ vcase = NoCall
  /\ client = NoClient
  /\ reg = NoReg
  /\ tr = NoTranslation
  /\ deletedSince = {}

NextTranslate ==
  \/ TranslateShopifyLabels
  \/ TranslateItemLabels
  \/ TranslateShopifyProduct
  \/ TranslateItem
  \/ TranslateShopifyOrder
  \/ TranslateSale

SpecTranslate == InitTranslate /\ [][NextTranslate]_vars

\* one bulk sync of customers on the Shopify server
InitCustomers ==
  /\ backend = "shopify"
  /\ env = DeployedEnv
  /\ now = 0
  /\ products = [i \in Ids |-> AbsentProduct(0)]
  /\ customers = [i \in Ids |-> AbsentCustomer(0)]
  /\ orders = [i \in Ids |-> AbsentOrder(0)]
  /\ reqs = <<>>
  /\ run = IdleRun
  /\ inv = <<>>
  /\ unhandled = 0
  /\ vcase = NoCall
  /\ client = NoClient
  /\ reg = NoReg
  /\ tr = NoTranslation
  /\ deletedSince = {}

NextCustomers ==
  \/ SyncStart
  \/ SyncFetchOk
  \/ SyncFetchFail
  \/ SyncCustomerItem

SpecCustomers == InitCustomers /\ [][NextCustomers]_vars

\* one bulk sync of products of the Shopify server, every await of its loop
\* a step, with product events handled between the steps
InitStale ==
  /\ backend = "shopify"
  /\ env = DeployedEnv
  /\ now = 0
  /\ products = [i \in Ids |-> AbsentProduct(0)]
  /\ customers = [i \in Ids |-> AbsentCustomer(0)]
  /\ orders = [i \in Ids |-> AbsentOrder(0)]
  /\ reqs = <<>>
  /\ run = IdleRun
  /\ inv = <<>>
  /\ unhandled = 0
  /\ vcase = NoCall
  /\ client = NoClient
  /\ reg = NoReg
  /\ tr = NoTranslation
  /\ deletedSince = {}

NextStale ==
  \/ SyncStart
  \/ SyncListFetchOk
  \/ SyncFetchFail
  \/ SyncItemStart
  \/ SyncItemSettle
  \/ HandleProductEvent

SpecStale == InitStale /\ [][NextStale]_vars

\* one bulk sync of products on the server that also receives webhooks
InitMirror ==
  /\ backend \in {"shopify", "lightspeed"}
  /\ env = DeployedEnv
  /\ now = 0
  /\ products = [i \in Ids |-> AbsentProduct(0)]
  /\ customers = [i \in Ids |-> AbsentCustomer(0)]
  /\ orders = [i \in Ids |-> AbsentOrder(0)]
  /\ reqs = <<>>
  /\ run = IdleRun
  /\ inv = <<>>
  /\ unhandled = 0
  /\ vcase = NoCall
  /\ client = NoClient
  /\ reg = NoReg
  /\ tr = NoTranslation
  /\ deletedSince = {}

NextMirror ==
  \/ Len(reqs) < MaxDuring /\ ShopifyWebhook
  \/ Len(reqs) < MaxDuring /\ LightspeedWebhook
  \/ \E i \in 1..Len(reqs) : RefetchOk(i)
  \/ \E i \in 1..Len(reqs) : RefetchFail(i)
  \/ \E i \in 1..Len(reqs) : StoreOk(i)
  \/ \E i \in 1..Len(reqs) : StoreFail(i)
  \/ SyncStart
  \/ SyncFetchOk
  \/ SyncFetchFail
  \/ SyncShopifyItem
  \/ SyncLightspeedItem

SpecMirror == InitMirror /\ [][NextMirror]_vars

\* the inventory routes next to the other writers of the Product collection
InitInventory ==
  /\ backend = "shopify"
  /\ env = DeployedEnv
  /\ now = 0
  /\ products = [i \in Ids |-> AbsentProduct(0)]
  /\ customers = [i \in Ids |-> AbsentCustomer(0)]
  /\ orders = [i \in Ids |-> AbsentOrder(0)]
  /\ reqs = <<>>
  /\ run = IdleRun
  /\ inv = <<>>
  /\ unhandled = 0
  /\ vcase = NoCall
  /\ client = NoClient
  /\ reg = NoReg
  /\ tr = NoTranslation
  /\ deletedSince = {}

NextInventory ==
  \/ InvRequest
  \/ \E i \in 1..Len(inv) : InvPlatformFail(i)
  \/ \E i \in 1..Len(inv) : InvSave(i)
  \/ ProductUpsert
  \/ ProductDelete

SpecInventory == InitInventory /\ [][NextInventory]_vars

(***************************************************************************)
(* Claims about the webhook pipeline (specification Spec)                   *)
(***************************************************************************)
Coll(kind, P, C, O) == CASE kind = "product" -> P [] kind = "customer" -> C [] OTHER -> O

\* C1: on the Shopify endpoint every request whose signature header is not
\* the HMAC of the raw body under the configured secret is answered 401,
\* handleWebhook is not invoked for it and it writes nothing to the store.
C1_InvalidSignatureRejected ==
  \A i \in 1..Len(reqs) :
    (backend = "shopify" /\ ~reqs[i].authentic) =>
      (reqs[i].status = 401 /\ ~reqs[i].invoked /\ ~reqs[i].wrote)

\* C2: on both webhook endpoints no upsert or delete in the store is caused
\* by a request that did not pass signature verification.
C2_NoUnverifiedWrite ==
  \A i \in 1..Len(reqs) : reqs[i].wrote => reqs[i].verified

\* C3: every webhook request whose signature verifies is answered 200, and
\* that answer is sent before the processing of the event completes.
C3_VerifiedAcknowledged ==
  \A i \in 1..Len(reqs) :
    (reqs[i].authentic \/ reqs[i].verified) =>
      (reqs[i].status = 200 /\ reqs[i].replies = 1)

\* C4: an error raised while an acknowledged event is processed is caught:
\* handleWebhook resolves to { success: false } and never rejects, the 200
\* already sent stays the only response, and no rejection is left unhandled.
C4_ErrorsContained ==
  /\ [](/\ unhandled = 0
        /\ \A i \in 1..Len(reqs) :
             reqs[i].invoked =>
               /\ reqs[i].status = 200
               /\ reqs[i].replies = 1
               /\ reqs[i].settle \in {"pending", "ok", "fail"}
               /\ (reqs[i].pc = "done" <=> reqs[i].settle # "pending"))
  /\ [][\A i \in 1..Len(reqs) :
          (reqs[i].pc # "done" /\ reqs'[i].pc = "done" /\ ~reqs'[i].wrote) =>
            (reqs'[i].settle = "fail" /\ reqs'[i].status = 200 /\ reqs'[i].replies = 1)]_vars

\* a processing error happened after the 200 was sent, and was contained
C4_Witness ==
  \E i \in 1..Len(reqs) :
    reqs[i].invoked /\ reqs[i].status = 200 /\ reqs[i].pc = "done" /\ reqs[i].settle = "fail"

\* the class and kind of a pending operation are those of the event's topic,
\* unless the handler already failed (the operation then only reports the error)
DispatchedAsAsked(task) ==
  task.op.type # "throw" =>
    /\ task.op.kind = task.kind
    /\ task.class = "upsert" => task.op.type \in {"upsert", "refetch"}
    /\ task.class = "delete" => task.op.type = "delete"

\* the step that completes task i applied what the task's event asked for
AppliedAsAsked(i) ==
  LET op == reqs[i].op
      after == Coll(op.kind, products', customers', orders')
  IN (reqs[i].pc = "store" /\ reqs'[i].pc = "done" /\ reqs'[i].settle = "ok") =>
       /\ reqs'[i].wrote
       /\ op.type = "delete" => ~after[op.id].present
       /\ op.type = "upsert" =>
            /\ after[op.id].present
            /\ \A f \in (DOMAIN op.rec) \ {"threw", "id"} : after[op.id][f] = op.rec[f]

\* the events whose topic has a case in the switch of handleWebhook
HasCase(task) == ~(backend = "shopify" /\ task.kind = "order" /\ task.class = "delete")

C10_UnknownTopicIgnored ==
  /\ [](\A i \in 1..Len(reqs) :
          (reqs[i].invoked /\ ~reqs[i].recognized) =>
            /\ reqs[i].pc = "done"
            /\ reqs[i].settle = "ok"
            /\ ~reqs[i].wrote
            /\ reqs[i].calls = 0)
  /\ [][(Len(reqs') > Len(reqs) /\ ~reqs'[Len(reqs')].recognized) =>
          UNCHANGED <<products, customers, orders, client, reg, tr, deletedSince>>]_vars

\* an event with an unrecognized topic was handed to handleWebhook
C10_Witness ==
  \E i \in 1..Len(reqs) : reqs[i].invoked /\ ~reqs[i].recognized /\ reqs[i].settle = "ok"

(***************************************************************************)
(* Claims about the verifier (specification SpecVerify)                     *)
(***************************************************************************)
\* C5: with a secret configured, verifyWebhook(B, hmac(B, secret)) is true
\* for every body B, and verifyWebhook(B', hmac(B, secret)) is false for
\* every body B' that differs from B in one byte.
C5_SignatureCorrect ==
  vcase.called =>
    /\ ~vcase.threw
    /\ vcase.valid <=> (vcase.body = vcase.signed)

\* a body of full length with its last byte changed was put to the verifier
C5_Witness ==
  /\ vcase.called
  /\ Len(vcase.signed) = MaxLen
  /\ vcase.body # vcase.signed
  /\ SubSeq(vcase.body, 1, MaxLen - 1) = SubSeq(vcase.signed, 1, MaxLen - 1)
  /\ ~vcase.valid

(***************************************************************************)
(* Claims about bulk mode (specification SpecSync)                          *)
(***************************************************************************)
\* C6: a bulk sync of N fetched items in which exactly one item fails still
\* processes every item and reports synced = N-1, errors = 1, total = N;
\* every item that did not fail is in the store when its turn of the loop
\* ends, and stays there until the run is over.
C6_PartialFailureIsolated ==
  /\ []((run.pc = "done" /\ run.status = 200 /\ run.fails = 1) =>
         (run.k = run.n /\ run.synced = run.n - 1 /\ run.errors = 1 /\ run.total = run.n))
  /\ [][(run'.k = run.k + 1 /\ run'.lastOk) => products'[run'.id].present]_vars
  /\ [][\A id \in Ids : products[id].present => products'[id].present]_vars

\* a run over the largest list ended with one failed item and the others stored
C6_Witness ==
  /\ run.pc = "done" /\ run.status = 200
  /\ run.n = MaxItems /\ run.fails = 1 /\ run.synced = MaxItems - 1
  /\ \E id \in Ids : products[id].present

\* a turn of the loop that applied handleProductUpdate to the payload the
\* turn before it had applied, both without error
SecondApplication ==
  /\ backend = "shopify"
  /\ run'.k = run.k + 1
  /\ run.lastOk /\ run'.lastOk
  /\ run'.item = run.item

DeleteAnswered(i) ==
  /\ reqs[i].pc = "store"
  /\ reqs[i].op.type = "delete"
  /\ reqs'[i].pc = "done"
  /\ reqs'[i].wrote

\* C11: a delete event for an external ID removes that record if it is
\* present and is not an error when it is absent: the store is then left
\* unchanged and handleWebhook returns { success: true }; records with other
\* external IDs, and records of the other kinds, are never removed.
C11_DeleteOnlyTheId ==
  [][\A i \in 1..Len(reqs) :
       DeleteAnswered(i) =>
         LET op     == reqs[i].op
             before == Coll(op.kind, products, customers, orders)
             after  == Coll(op.kind, products', customers', orders')
         IN /\ reqs'[i].settle = "ok"
            /\ ~after[op.id].present
            /\ \A o \in Ids \ {op.id} : after[o] = before[o]
            /\ ~before[op.id].present => after = before
            /\ op.kind # "product" => products' = products
            /\ op.kind # "customer" => customers' = customers
            /\ op.kind # "order" => orders' = orders]_vars

\* a customer delete event was processed and the customer of the other id
\* is still in the store
C11_Witness ==
  \E i \in 1..Len(reqs) :
    /\ reqs[i].class = "delete" /\ reqs[i].kind = "customer"
    /\ reqs[i].wrote /\ reqs[i].settle = "ok"
    /\ \E id \in Ids : customers[id].present

\* C12: an upsert on an external ID that already has a record is a full
\* overwrite: afterwards every field of the stored order has the value of the
\* new canonical record, and a field the new record does not carry
\* (cancelledAt) holds no value written before.
C12_FullOverwrite ==
  (Len(reqs) = 1 /\ reqs[1].op.type = "upsert" /\ reqs[1].wrote) =>
    LET rec == reqs[1].op.rec
        doc == orders[rec.id]
    IN /\ doc.present
       /\ doc.total = rec.total
       /\ doc.status = rec.status
       /\ doc.lastUpdated = rec.lastUpdated
       /\ doc.cancelledAt = 0

(***************************************************************************)
(* Claims about concurrent upserts (specification SpecRace)                 *)
(***************************************************************************)
\* C13: under any interleaving of concurrent upserts for the same external
\* ID, no upsert that reached the store fails, and each write that is
\* applied leaves the record of the ID with the content of its canonical
\* record (so the last write applied wins).
C13_LastWriteWins ==
  /\ [](\A i \in 1..Len(reqs) :
          (reqs[i].pc = "done" /\ reqs[i].op.type = "upsert") =>
            (reqs[i].settle = "ok" /\ reqs[i].wrote))
  /\ [][\A i \in 1..Len(reqs) :
          (reqs[i].pc # "done" /\ reqs'[i].pc = "done" /\ reqs'[i].wrote) =>
            LET rec == reqs[i].op.rec
                doc == products'[rec.id]
            IN /\ doc.present
               /\ doc.name = rec.name /\ doc.price = rec.price
               /\ doc.inStock = rec.inStock /\ doc.stockQuantity = rec.stockQuantity]_vars


(***************************************************************************)
(* Claims about bulk mode beside webhooks (specification SpecMirror)        *)
(***************************************************************************)
\* a record of the given kind and id is in the store now and not after the step
Removed(kind, id) ==
  /\ Coll(kind, products, customers, orders)[id].present
  /\ ~Coll(kind, products', customers', orders')[id].present

\* C14: a bulk-sync run never removes a record: no step of the run takes a
\* record out of the store, so every external ID present before the run is
\* present after it unless a delete event came, also when the platform
\* returns a list without it; a step that removes a record is the store
\* call of a delete event for that kind and external ID.
C14_SyncNeverRemoves ==
  /\ [][run' # run => \A kind \in {"product", "customer", "order"}, id \in Ids :
                         ~Removed(kind, id)]_vars
  /\ [][\A kind \in {"product", "customer", "order"}, id \in Ids :
          Removed(kind, id) =>
            \E i \in 1..Len(reqs) :
              /\ DeleteAnswered(i)
              /\ reqs[i].class = "delete"
              /\ reqs[i].op.kind = kind /\ reqs[i].op.id = id]_vars

\* a run whose list did not hold the product a webhook had stored is over,
\* and the product is still there
C14_Witness ==
  /\ run.pc = "done" /\ run.status = 200
  /\ \E i \in 1..Len(reqs) :
       /\ reqs[i].class = "upsert" /\ reqs[i].kind = "product" /\ reqs[i].wrote
  /\ \E id \in Ids :
       /\ products[id].present
       /\ run.n = 0 \/ (run.n = 1 /\ run.lastOk /\ run.id # id)

(***************************************************************************)
(* Claims about the end of a bulk sync (specification SpecBulkFair)         *)
(***************************************************************************)
\* the response of the run carries the counts of every kind it covers
ReportsCounts ==
  /\ run.status = 200
  /\ IF run.stage = 0
     THEN run.total = run.n /\ run.synced + run.errors = run.total
     ELSE /\ Len(run.results) = Len(StageKinds)
          /\ \A j \in 1..Len(run.results) :
               /\ run.results[j].kind = StageKinds[j]
               /\ run.results[j].synced + run.results[j].errors = run.results[j].total

\* C15 as claimed: a run that has started eventually finishes and reports
\* its aggregate counts {synced, errors, total}.
C15_RunReportsCounts ==
  (run.pc # "idle") ~> (run.pc = "done" /\ ReportsCounts)

\* C15 amended: a run that has started eventually finishes; it reports its
\* aggregate counts with status 200, except that a single-kind route whose
\* list fetch failed answers 500 without counts and without having
\* processed an item.
C15_RunFinishes ==
  /\ (run.pc # "idle") ~>
       (run.pc = "done" /\ (ReportsCounts \/ (run.stage = 0 /\ run.status = 500)))
  /\ [](run.status = 500 =>
          run.pc = "done" /\ run.stage = 0 /\ run.k = 0 /\ run.synced = 0 /\ run.errors = 0)
  /\ [][run'.status = 500 /\ run.status # 500 => run.pc = "fetch" /\ products' = products]_vars

\* a sync of all kinds is over, with an item that failed in one kind and a
\* list fetch that failed in another
C15_Witness ==
  /\ run.pc = "done" /\ run.stage = Len(StageKinds)
  /\ run.fails >= 1
  /\ \E j \in 1..Len(run.results) : run.results[j].errors >= 1

\* C16: per-item failures never change the HTTP status of a bulk sync: once
\* the list fetch has succeeded the response is 200 with the
\* synced/errors/total breakdown, whatever the items did; a 500 is produced
\* only by a failed list fetch, and a failed list fetch ends the run of that
\* entity kind before any item is translated or upserted.
C16_StatusByFetchOnly ==
  /\ [](run.pc \in {"items", "allitems"} => run.status = 0)
  /\ [][(run.pc \in {"items", "allitems"} /\ run'.pc = "done") =>
          (run'.status = 200 /\ ReportsCounts')]_vars
  /\ [][(run.pc = "fetch" /\ run'.pc = "done" /\ run'.n = run'.total /\ run'.status # 500) =>
          (run'.status = 200 /\ run'.synced = 0 /\ run'.errors = 0 /\ run'.total = 0)]_vars
  /\ [][run'.status = 500 =>
          /\ run.pc \in {"fetch", "done"}
          /\ run'.k = 0 /\ run'.pc = "done"
          /\ products' = products /\ customers' = customers /\ orders' = orders]_vars
  /\ [][(run.pc = "allfetch" /\ run'.fails > run.fails) =>
          /\ run'.results[run.stage] =
               [kind |-> StageKinds[run.stage], synced |-> 0, errors |-> 0, total |-> 0]
          /\ products' = products /\ customers' = customers /\ orders' = orders]_vars

\* a products sync answered 200 although every item of its list failed
C16_Witness ==
  /\ run.pc = "done" /\ run.stage = 0 /\ run.status = 200
  /\ run.n = MaxItems /\ run.errors = MaxItems /\ run.synced = 0

(***************************************************************************)
(* Claims about the loop of a bulk sync (specification SpecLoop)            *)
(***************************************************************************)
\* C17: within one bulk-sync run the items are processed one at a time in
\* the order of the list the platform returned: at most one handler call is
\* awaited; the call for the item at position i+1 starts only when the
\* outcomes of the positions 1..i have been counted, and outcomes are
\* counted in the order of the list.
C17_OneAtATimeInOrder ==
  /\ [](Cardinality(run.inflight) <= 1)
  /\ [](\A j \in 1..Len(run.order) : run.order[j] = j)
  /\ [](run.synced + run.errors = Len(run.order))
  /\ [][run'.started = run.started + 1 =>
          /\ run.synced + run.errors = run.started
          /\ run'.inflight = {run.started + 1}]_vars

\* the call for the last item of a list of MaxItems is awaited, the items
\* before it are counted
C17_Witness ==
  /\ run.pc = "items" /\ run.n = MaxItems
  /\ run.inflight = {MaxItems}
  /\ run.synced + run.errors = MaxItems - 1
  /\ run.synced >= 1 /\ run.errors >= 1

(***************************************************************************)
(* Claims about webhooks beside a bulk sync (specification SpecMirror)      *)
(***************************************************************************)
\* C18: a bulk sync in progress does not block webhook acknowledgments: a
\* webhook with a valid signature that arrives while the run is suspended
\* at one of its awaits is verified and answered with 200 at once, before
\* the run goes on, and the run takes no step inside the synchronous part
\* of the webhook route.
C18_SyncDoesNotBlockAck ==
  [][(/\ Len(reqs') = Len(reqs) + 1
      /\ run.pc \in {"fetch", "items"}
      /\ reqs'[Len(reqs')].authentic) =>
       (/\ reqs'[Len(reqs')].status = 200
        /\ reqs'[Len(reqs')].verified
        /\ reqs'[Len(reqs')].replies = 1
        /\ run' = run
        /\ products' = products /\ customers' = customers /\ orders' = orders)]_vars

(***************************************************************************)
(* Claims about the OAuth platform client (specification SpecRequest)       *)
(***************************************************************************)
\* C19: one call of request() retries exactly once on an authorization
\* failure: the endpoint is fetched at most twice; the second fetch happens
\* only after the first returned 401 and the refresh that followed it
\* succeeded, it does happen then, and it carries the refreshed token.
C19_RetryOnceAfterRefresh ==
  /\ [](client.fetches <= 2 /\ Len(client.sent) = client.fetches)
  /\ [][(client'.calls = client.calls /\ client'.fetches = client.fetches + 1 /\ client.fetches >= 1) =>
          /\ client.fetches = 1
          /\ client.first = 401
          /\ client.pc = "refresh" /\ client'.refreshed
          /\ client'.accessToken > client.accessToken
          /\ client'.sent[2] = client'.accessToken
          /\ client'.sent[2] # client'.sent[1]]_vars
  /\ [][(client.pc = "refresh" /\ client'.refreshed) => client'.fetches = 2]_vars
  /\ [](client.pc \in {"returned", "threw"} /\ (client.first # 401 \/ ~client.refreshed) =>
          client.fetches <= 1)

\* a call returned data from its second fetch
C19_Witness ==
  /\ client.pc = "returned" /\ client.fetches = 2
  /\ client.first = 401 /\ client.refreshed /\ client.retry = 200
  /\ client.sent[2] = client.accessToken

\* C20: when the retried fetch also returns a non-OK status, request()
\* surfaces an error to its caller; it never returns the body of a failed
\* response as if it were data.
C20_RetryFailureSurfaced ==
  /\ (client.fetches = 2 /\ client.retry \in Statuses \ {200}) => client.pc = "threw"
  /\ client.pc = "returned" => client.result = "data"

(***************************************************************************)
(* Claims about webhook registration (specification SpecRegister)           *)
(***************************************************************************)
\* C21: webhook registration fails with a 400 whenever the configured
\* public callback URL is a loopback address, and in that case no
\* webhook-creation call is made to the external platform.
C21_LoopbackRejected ==
  (reg.pc # "idle" /\ IsLoopback(reg.url)) =>
    (reg.pc = "done" /\ reg.status = 400 /\ reg.calls = 0)

(***************************************************************************)
(* Claims about the translators (specification SpecTranslate)               *)
(***************************************************************************)
\* the payload of the call carries no brand, no category and no image
LacksLabels ==
  CASE tr.fn = "convertShopifyProduct" /\ "vendor" \in DOMAIN tr.arg ->
         /\ ~Truthy(tr.arg.vendor) /\ ~Truthy(tr.arg.product_type)
         /\ Len(tr.arg.images.list) = 0
    [] tr.fn = "convertItemToProduct" /\ "Manufacturer" \in DOMAIN tr.arg ->
         /\ ~Truthy(tr.arg.Manufacturer) /\ ~Truthy(tr.arg.Category)
         /\ Len(tr.arg.Images.list) = 0
    [] OTHER -> FALSE

\* C22: translating a product payload that lacks brand, category and images
\* yields brand = "Unknown", category = "Uncategorized", imageUrl = the
\* placeholder URL and images = [], with both translators.
C22_DefaultsSubstituted ==
  LacksLabels =>
    /\ ~tr.out.threw
    /\ tr.out.brand = Str("Unknown")
    /\ tr.out.category = Str("Uncategorized")
    /\ tr.out.imageUrl = Str(Placeholder)
    /\ tr.out.images = <<>>

\* convertItemToProduct was applied to an item without Manufacturer,
\* Category and Images
C22_Witness ==
  /\ tr.fn = "convertItemToProduct"
  /\ LacksLabels
  /\ tr.arg.Images.t = "absent" /\ tr.arg.Manufacturer = Undefined
  /\ tr.out.brand = Str("Unknown")

\* C23: the translators parse every numeric field that arrives as a string
\* with a fallback of zero: the price of a product and of each variant, and
\* the total of an order, are numbers in the canonical record, never a
\* not-a-number value.
C23_ParseFallbackZero ==
  (tr.fn # "none" /\ ~tr.out.threw) =>
    /\ "price" \in DOMAIN tr.out =>
         /\ tr.out.price.t = "number"
         /\ \A j \in 1..Len(tr.out.variants) : tr.out.variants[j].price.t = "number"
    /\ "stockQuantity" \in DOMAIN tr.out =>
         (tr.fn = "convertItemToProduct" => tr.out.stockQuantity.t = "number")
    /\ "total" \in DOMAIN tr.out => tr.out.total.t = "number"

(***************************************************************************)
(* Claims about customers (specification SpecCustomers)                     *)
(***************************************************************************)
\* the address of the customer just handled belongs, whatever its case, to
\* a record with another external id
EmailTaken ==
  /\ run'.k = run.k + 1
  /\ run'.item.id.t = "number"
  /\ \E o \in Ids \ {run'.item.id.n} :
       customers[o].present /\ toLowerCase(customers[o].email) = toLowerCase(run'.item.email)

\* C24: in every reachable state of the store no two customer records
\* share the same email compared case-insensitively; an upsert of a customer
\* whose email belongs to a record with a different external ID fails and
\* is counted as an error of the bulk run, and creates or updates nothing.
C24_EmailUnique ==
  /\ [](\A a, b \in Ids :
          (a # b /\ customers[a].present /\ customers[b].present) =>
            toLowerCase(customers[a].email) # toLowerCase(customers[b].email))
  /\ [][EmailTaken => (customers' = customers /\ run'.errors = run.errors + 1
                        /\ run'.synced = run.synced)]_vars

\* a customer whose address differs only in case from the address of the
\* stored customer of the other id was turned away while the store was up
C24_Witness ==
  /\ run.errors >= 1 /\ run.fails = 0
  /\ run.item.id = Num(2) /\ run.item.email = "A@X.com"
  /\ customers[1].present /\ customers[1].email = "a@x.com"
  /\ ~customers[2].present

(***************************************************************************)
(* Claims about the refetch of the POS-style event mode (specification Spec)*)
(***************************************************************************)
\* C25: in the POS-style event mode a create or update event makes the
\* handler refetch the entity by ID before it upserts; when the refetch
\* fails the event is dropped: no upsert is made, the store is unchanged,
\* the platform is not asked again, and handleWebhook returns
\* { success: false }.
C25_RefetchFailureDropsEvent ==
  /\ [](\A i \in 1..Len(reqs) :
          /\ reqs[i].calls <= 1
          /\ (backend = "lightspeed" /\ reqs[i].class = "upsert" /\ reqs[i].pc = "store") =>
               reqs[i].calls = 1)
  /\ [][\A i \in 1..Len(reqs) :
          (reqs[i].pc = "refetch" /\ reqs'[i].pc \notin {"refetch", "store"}) =>
            /\ reqs'[i].pc = "done"
            /\ reqs'[i].settle = "fail"
            /\ ~reqs'[i].wrote
            /\ reqs'[i].calls = 1
            /\ products' = products /\ customers' = customers /\ orders' = orders]_vars
  /\ [][\A i \in 1..Len(reqs) : reqs[i].pc = "done" => reqs'[i] = reqs[i]]_vars

\* an item.update event was dropped after its refetch failed, and nothing
\* was stored
C25_Witness ==
  /\ backend = "lightspeed"
  /\ \E i \in 1..Len(reqs) :
       /\ reqs[i].class = "upsert" /\ reqs[i].kind = "product"
       /\ reqs[i].pc = "done" /\ reqs[i].settle = "fail" /\ reqs[i].calls = 1
  /\ \A id \in Ids : ~products[id].present

(***************************************************************************)
(* Claims about the cancellation topic (specification SpecOrders)           *)
(***************************************************************************)
\* the event handled in this step is a cancellation of the order id, which
\* has a record
CancelsExisting(id) ==
  /\ Len(reqs') = 1
  /\ reqs'[1].class = "cancel"
  /\ reqs'[1].op.type = "cancel" /\ reqs'[1].op.id = id
  /\ orders[id].present

\* C26: handling the cancellation topic for an existing order stamps the
\* cancellation timestamp, the cancellation reason and the cancelled status
\* on that order and leaves every other field of the order (totals among
\* them) and every other order unchanged.
C26_CancellationStamps ==
  [][\A id \in Ids :
       CancelsExisting(id) =>
         /\ orders'[id].status = "cancelled"
         /\ orders'[id].cancelledAt = reqs'[1].op.rec.cancelledAt
         /\ orders'[id].cancelReason \in {o.cancel_reason : o \in ShopifyOrders}
         /\ orders'[id].total = orders[id].total
         /\ orders'[id].gen = orders[id].gen
         /\ \A o \in Ids \ {id} : orders'[o] = orders[o]]_vars

\* the event handled in this step is a cancellation of the order id, which
\* has no record
CancelsAbsent(id) ==
  /\ Len(reqs') = 1
  /\ reqs'[1].class = "cancel"
  /\ reqs'[1].op.type = "cancel" /\ reqs'[1].op.id = id
  /\ ~orders[id].present

\* the event handled in this step is a create or an update of the order id,
\* which has no record, and the store took the write
CreatesAbsent(id) ==
  /\ Len(reqs') = 1
  /\ reqs'[1].class = "upsert"
  /\ reqs'[1].op.type = "upsert" /\ reqs'[1].op.id = id
  /\ reqs'[1].wrote
  /\ ~orders[id].present

\* C30: handling the cancellation topic for an order without a record
\* creates no record and changes nothing, and handleWebhook still returns
\* {success: true}; the record a later create event makes carries nothing
\* of the cancellation.
C30_CancelOfAbsentIsNoOp ==
  [][\A id \in Ids :
       /\ CancelsAbsent(id) =>
            /\ orders' = orders
            /\ reqs'[1].settle = "ok"
       /\ CreatesAbsent(id) =>
            /\ orders'[id].present
            /\ orders'[id].status = reqs'[1].op.rec.status
            /\ orders'[id].cancelledAt = 0
            /\ orders'[id].cancelReason = ""]_vars

\* the cancellation of order 1, which never had a record, was handled and the
\* order still has none
C30_Witness ==
  /\ Len(reqs) = 1
  /\ reqs[1].class = "cancel" /\ reqs[1].op.id = 1
  /\ reqs[1].settle = "ok"
  /\ ~orders[1].present /\ orders[1].gen = 0

(***************************************************************************)
(* Claims about the counters of a bulk sync (specification SpecBulkFair)    *)
(***************************************************************************)
\* the counters of the kind under way after the step: those of the run, or,
\* when the step ended a kind of the sync of all kinds, those put in results
CountsAfter ==
  IF Len(run'.results) > Len(run.results)
  THEN run'.results[Len(run'.results)]
  ELSE [kind |-> "", synced |-> run'.synced, errors |-> run'.errors, total |-> run'.total]

\* C27: at every point of a bulk-sync run synced + errors is the number of
\* items whose processing has finished; each item adds one to exactly one
\* of the two counters; and when the response is sent
\* synced + errors = total = the number of items fetched.
C27_CountersAddUp ==
  /\ [](run.pc \in {"items", "allitems"} => run.synced + run.errors = run.k)
  /\ [][(run.pc \in {"items", "allitems"} /\ run' # run) =>
          /\ CountsAfter.synced + CountsAfter.errors = run.synced + run.errors + 1
          /\ CountsAfter.synced >= run.synced /\ CountsAfter.errors >= run.errors
          /\ (run'.pc = "done" \/ Len(run'.results) > Len(run.results)) =>
               /\ CountsAfter.synced + CountsAfter.errors = run.n
               /\ (run.stage > 0) => CountsAfter.total = run.n]_vars
  /\ []((run.pc = "done" /\ run.status = 200 /\ run.stage = 0) =>
          (run.synced + run.errors = run.total /\ run.total = run.n /\ run.k = run.n))
  /\ []((run.pc = "done" /\ run.stage > 0) =>
          \A j \in 1..Len(run.results) :
            run.results[j].synced + run.results[j].errors = run.results[j].total)

\* a sync of all kinds answered with a kind in which items of both
\* outcomes were counted
C27_Witness ==
  /\ run.pc = "done" /\ run.stage = Len(StageKinds) /\ run.status = 200
  /\ \E j \in 1..Len(run.results) :
       /\ run.results[j].synced >= 1 /\ run.results[j].errors >= 1
       /\ run.results[j].total = MaxPerKind

(***************************************************************************)
(* Claims about the secrets of the verifier (specification SpecSecrets)     *)
(***************************************************************************)
\* C28: the verifier checks a signature against exactly one secret, the
\* primary webhook secret when it is configured and the secondary API
\* secret only when the primary is unset; a signature made with the
\* secondary secret is rejected whenever the primary secret is set.
C28_OneSecret ==
  vcase.called =>
    /\ ~vcase.threw
    /\ vcase.valid <=>
         (vcase.key = (IF env.SHOPIFY_WEBHOOK_SECRET # "" THEN env.SHOPIFY_WEBHOOK_SECRET
                       ELSE env.SHOPIFY_API_SECRET))
    /\ (env.SHOPIFY_WEBHOOK_SECRET # "" /\ vcase.key = env.SHOPIFY_API_SECRET) => ~vcase.valid

\* both secrets are set and a body signed with the API secret was rejected
C28_Witness ==
  /\ vcase.called
  /\ env.SHOPIFY_WEBHOOK_SECRET = "whsec" /\ env.SHOPIFY_API_SECRET = "apisec"
  /\ vcase.key = "apisec" /\ Len(vcase.body) = MaxLen
  /\ ~vcase.valid

(***************************************************************************)
(* Claims about deletes beside a bulk sync (specification SpecStale)        *)
(***************************************************************************)
\* C29: once a delete event for x has been handled, x stays absent until a
\* create/update event for x, or a bulk sync whose fetch started after the
\* delete, writes it again: a bulk sync that got its list before the delete
\* was handled does not re-create x.
C29_DeletedStaysAbsent ==
  [][\A x \in Ids :
       (x \in deletedSince /\ ~products[x].present /\ products'[x].present)
         => run' = run]_vars
====
